---- MODULE Spec2Model ----
(***************************************************************************)
(* Caching subsystem of the collaborative-playlist backend.                *)
(*                                                                         *)
(*   LRUCache (cloud/util/LRUCache.js)    map + yallist recency list        *)
(*   cache registry (cloud/util/cache.js) named LRUCache instances          *)
(*   saveSong, getCachedPlaylist, cachePlaylist (cloud/util/utilFunctions)  *)
(*   the playlist operations (cloud/playlistFunctions.js) and utilities     *)
(*   the search-cache jobs (cloud/util/spotifyAPI.js)                       *)
(*                                                                         *)
(* Every subsystem has its own specification over the same variables; the  *)
(* variables a specification does not use keep their initial value.        *)
(***************************************************************************)
EXTENDS Integers, Sequences, FiniteSets, TLC

VARIABLES
    lru,        \* SpecLRU: the LRUCache object under test {maxSize, map, list, node}
    last,       \* SpecLRU: the call that completed last, with its return value
    pre,        \* SpecLRU: the cache object as it was when `last` was called
    recent,     \* SpecLRU: held keys in the order of their last touch, newest first
    written,    \* SpecLRU: held key -> value of the most recent set(key, .)
    Cache,      \* the cache registry: name -> LRUCache object (cache.js)
    Song,       \* persistent store: the rows of class Song
    songCall,   \* the saveSong calls: call id -> position and locals
    PlaylistEntry, \* persistent store: the rows of class PlaylistEntry
    plCall,     \* the getCachedPlaylist calls: call id -> position and locals
    Party,      \* persistent store: party id -> the saved fields of the Party row
    Like,       \* persistent store: the rows of class Like
    plOp,       \* the playlist operation that completed last, with its outcome
    now,        \* the clock: operations completed so far
    SearchCache, \* persistent store: the rows of class SearchCache
    destroying, \* ids of SearchCache rows whose destroy() was called and not awaited
    formatting, \* queries whose formatSearchResult was called and not awaited
    job,        \* the batch job: its position and locals
    searched,   \* query -> remote searches issued for it in this run
    User,       \* persistent store: user id -> the currParty of the _User row
    joinCode,   \* persistent store: id of a persisted Party row -> its joinCode
    partyCall,  \* the createParty calls: user id -> position and locals
    likeCall,   \* the likeSong calls: call id -> position and locals
    cleaning,   \* the store requests of the cleanup calls that are in flight
    searchOp,   \* the search request that completed last, with its outcome
    scan,       \* the getAll call: position and locals
    entryCall   \* the addEntryToPlaylist and removeEntryFromPlaylist calls

lruVars == <<lru, last, pre, recent, written>>

partyVars == <<Party, Like, plOp, now>>

searchVars == <<SearchCache, destroying, formatting, job, searched>>

requestVars ==
    <<User, joinCode, partyCall, likeCall, cleaning, searchOp, scan, entryCall>>

appVars ==
    <<Cache, Song, songCall, PlaylistEntry, plCall, partyVars, searchVars, requestVars>>

vars == <<lru, last, pre, recent, written, Cache, Song, songCall, PlaylistEntry, plCall,
          Party, Like, plOp, now, SearchCache, destroying, formatting, job, searched,
          User, joinCode, partyCall, likeCall, cleaning, searchOp, scan, entryCall>>

(***************************************************************************)
(* Bounds                                                                  *)
(***************************************************************************)
MaxCapacity == 3

\* capacities of the registered caches, scaled down from cache.js (1500,
\* 30000, 100) so that the few keys of the model put them under pressure
SearchCacheSize == 2

SongCacheSize == 1

PartyCacheSize == 2

\* capacity of the playlist cache where one is registered
PlaylistCacheSize == 1

\* calls of one operation in one behaviour
MaxCalls == 4

\* PlaylistEntry rows the store may hold
MaxEntries == 3

SpotifyIds == {"s1", "s2"}

Titles == {"t1", "t2"}

PartyIds == {"p1", "p2"}

Scores == {0, 1}

CallIds == 1..MaxCalls

Keys == {"a", "b", "c", "d"}

Values == {1, 2}

\* capacities a cache under test is constructed with; the constructor stores
\* any number it is given, zero and negative ones included
Capacities == {-1, 0} \cup (1..MaxCapacity)

\* the miss sentinel (null) returned by get
Null == 0

EmptyMap == [x \in {} |-> Null]

\* no key, no name
NoKey == ""

\* last.again: the call before this one was a set of the same key
\* last.oldest: the least recently touched of the keys held when the call
\*              was made (NoKey if none was held)
NoCall ==
    [op |-> "none", key |-> NoKey, value |-> Null, result |-> Null,
     again |-> FALSE, oldest |-> NoKey]

(***************************************************************************)
(* yallist: the doubly linked list, head first. A node is an object with   *)
(* an identity; its value is the Entry it was created for.                 *)
(***************************************************************************)
NodeIds == 1..(MaxCapacity + 2)

Entry(key, value) == [key |-> key, value |-> value]

\* Yallist.removeNode: unlink the node
removeNode(list, node) == SelectSeq(list, LAMBDA n : n # node)

\* Yallist.unshiftNode: nothing if the node is the head, else unlink it and
\* link it in front of the head
unshiftNode(list, node) ==
    IF list # <<>> /\ list[1] = node
    THEN list
    ELSE <<node>> \o removeNode(list, node)

\* Yallist.pop: unlink the tail
pop(list) == SubSeq(list, 1, Len(list) - 1)

\* the value Yallist.pop returns: the tail node's value (an Entry)
popped(c) == c.node[c.list[Len(c.list)]]

\* a node object that did not exist before: new Node(...) in Yallist.unshift
newNode(c) ==
    CHOOSE n \in NodeIds :
        /\ n \notin {c.list[i] : i \in 1..Len(c.list)}
        /\ n \notin {c.map[k] : k \in DOMAIN c.map}
        /\ \A m \in NodeIds :
              (m \notin {c.list[i] : i \in 1..Len(c.list)}
               /\ m \notin {c.map[k] : k \in DOMAIN c.map}) => n <= m

\* Node objects have no name of their own: the nodes no reference reaches
\* are dropped and the others are numbered by their place in the list
\* (a node the list does not hold, after those it holds).
collect(c) ==
    LET linked == {c.list[i] : i \in 1..Len(c.list)}
        loose  == {c.map[k] : k \in DOMAIN c.map} \ linked
        place(n) ==
            IF n \in linked
            THEN CHOOSE i \in 1..Len(c.list) : c.list[i] = n
            ELSE Len(c.list) + Cardinality({m \in loose : m <= n})
        live == linked \cup loose
    IN  [maxSize |-> c.maxSize,
         map  |-> [k \in DOMAIN c.map |-> place(c.map[k])],
         list |-> [i \in 1..Len(c.list) |-> i],
         node |-> [i \in {place(n) : n \in live} |->
                      c.node[CHOOSE n \in live : place(n) = i]]]

(***************************************************************************)
(* LRUCache                                                                *)
(***************************************************************************)
LRUCache(maxSize) ==
    [maxSize |-> maxSize, map |-> EmptyMap, list |-> <<>>, node |-> EmptyMap]

\* Map.prototype.set / Map.prototype.delete on the lookup table
mapSet(map, key, node) ==
    [k \in DOMAIN map \cup {key} |-> IF k = key THEN node ELSE map[k]]

mapDelete(map, key) == [k \in DOMAIN map \ {key} |-> map[k]]

\* a set that leaves the old node of the key linked
setDetach_Off(c, key) == c

\* set, lines 22-25: an entry already held for the key is unlinked
setDetach(c, key) ==
    IF key \in DOMAIN c.map
    THEN [c EXCEPT !.list = removeNode(c.list, c.map[key])]
    ELSE c

\* set, lines 27-29: a new node for the entry becomes the head and the
\* lookup table refers to it
setInsert(c, key, value) ==
    LET n == newNode(c)
        l == <<n>> \o c.list
    IN  [c EXCEPT !.list = l,
                  !.node = [m \in DOMAIN c.node \cup {n} |->
                               IF m = n THEN Entry(key, value) ELSE c.node[m]],
                  !.map  = mapSet(c.map, key, l[1])]

\* a set that never evicts
setEvict_Off(c) == c

\* a set that unlinks the tail but leaves its key in the lookup table
setEvict_NoMapDelete(c) ==
    IF Cardinality(DOMAIN c.map) > c.maxSize
    THEN [c EXCEPT !.list = pop(c.list)]
    ELSE c

\* a set that evicts only when the capacity is positive
setEvict_PositiveOnly(c) ==
    IF c.maxSize > 0 /\ Cardinality(DOMAIN c.map) > c.maxSize
    THEN [c EXCEPT !.list = pop(c.list),
                   !.map  = mapDelete(c.map, popped(c).key)]
    ELSE c

\* set, lines 31-34: over capacity, the tail is unlinked and its key deleted
setEvict(c) ==
    IF Cardinality(DOMAIN c.map) > c.maxSize
    THEN LET deleteEntry == popped(c)
         IN  [c EXCEPT !.list = pop(c.list),
                       !.map  = mapDelete(c.map, deleteEntry.key)]
    ELSE c

\* LRUCache.prototype.set: the cache object after set(key, value)
set(c, key, value) == collect(setEvict(setInsert(setDetach(c, key), key, value)))

\* a get that does not move the node to the head
get_NoTouch(c, key) == c

\* LRUCache.prototype.get: the cache object after get(key)
get(c, key) ==
    IF key \notin DOMAIN c.map
    THEN c
    ELSE collect([c EXCEPT !.list = unshiftNode(c.list, c.map[key])])

\* a get that reads the value of the head node as it was before the move
getResult_Head(c, key) ==
    IF key \notin DOMAIN c.map
    THEN Null
    ELSE c.node[c.list[1]].value

\* LRUCache.prototype.get: the value get(key) returns
getResult(c, key) ==
    IF key \notin DOMAIN c.map
    THEN Null
    ELSE c.node[c.map[key]].value

(***************************************************************************)
(* The cache registry and the persistent store                             *)
(***************************************************************************)
\* module.exports of cache.js: the LRUCache instances created at process start
Registry ==
    [searchCache |-> LRUCache(SearchCacheSize),
     songCache   |-> LRUCache(SongCacheSize),
     partyCache  |-> LRUCache(PartyCacheSize)]

\* the caches the operations of utilFunctions.js dereference: Cache.<name>
UsedCaches == {"partyCache", "playlistCache", "songCache", "searchCache"}

\* a call that has not been made
NoSongCall ==
    [pc |-> "idle", spotifyId |-> NoKey, title |-> NoKey, hit |-> FALSE,
     found |-> FALSE, result |-> Null]

NoPlCall ==
    [pc |-> "idle", party |-> NoKey, hit |-> FALSE, error |-> NoKey,
     rows |-> {}, result |-> EmptyMap]

\* an attribute that was never set (undefined)
Unset == -1

\* the settings createParty saves: locationEnabled, name, explicitEnabled;
\* userLimit and songLimit are not set
PartySettings ==
    [locationEnabled |-> TRUE, name |-> "n0", userLimit |-> Unset, songLimit |-> Unset,
     explicitEnabled |-> TRUE]

\* the Party rows before any playlist was published: no cachedPlaylist, no
\* playlistLastUpdatedAt, nothing playing
PartyRows ==
    [p \in PartyIds |->
        [cachedPlaylist |-> <<>>, playlistLastUpdatedAt |-> Unset, currPlaying |-> NoKey,
         location |-> NoKey, settings |-> PartySettings]]

\* no entry object
NoEntry == [id |-> Null, party |-> NoKey, song |-> NoKey, numLikes |-> 0, score |-> Unset]

\* no playlist operation has run
NoPlOp ==
    [name |-> "none", user |-> NoKey, party |-> NoKey, entry |-> Null,
     song |-> NoKey, error |-> NoKey, object |-> NoEntry, before |-> EmptyMap]

PartyIdle ==
    /\ Party = PartyRows
    /\ Like = {}
    /\ plOp = NoPlOp
    /\ now = 0

\* no batch job has run
NoJob ==
    [name |-> "none", pc |-> "idle", queries |-> <<>>, query |-> <<>>,
     cachedQueries |-> <<>>, started |-> {}, once |-> {}, runs |-> 0, created |-> 0,
     before |-> {}, survivor |-> Null, result |-> <<>>,
     seed |-> <<>>, iterations |-> 0]

SearchIdle ==
    /\ SearchCache = {}
    /\ destroying = {}
    /\ formatting = {}
    /\ job = NoJob
    /\ searched = EmptyMap

Users == {"u1", "u2"}

\* user.get("currParty")
currParty == [u \in Users |-> IF u = "u1" THEN "p1" ELSE "p2"]

\* the code space of Math.random().toString(36).substr(2, 4)
JoinCodes == {"c1", "c2", "c3"}

\* party.get("joinCode") of the Party rows
JoinCodeRows == [p \in PartyIds |-> IF p = "p1" THEN "c1" ELSE "c2"]

\* a createParty call that has not been made
NoPartyCall ==
    [pc |-> "idle", i |-> 0, candidate |-> NoKey, joinCode |-> NoKey, checks |-> 0,
     collisions |-> 0, party |-> NoKey, error |-> NoKey]

\* interleaved likeSong calls in one behaviour
MaxLikeCalls == 2

LikeCallIds == 1..MaxLikeCalls

\* a likeSong or unlikeSong call that has not been made
NoLikeCall ==
    [pc |-> "idle", name |-> NoKey, user |-> NoKey, party |-> NoKey, entryId |-> Null,
     entry |-> NoEntry, like |-> Null, error |-> NoKey]

\* no search request has completed
NoSearchOp ==
    [seq |-> 0, query |-> <<>>, hit |-> FALSE, found |-> FALSE, again |-> FALSE,
     result |-> <<>>, lists |-> EmptyMap, error |-> NoKey]

\* interleaved addEntryToPlaylist and removeEntryFromPlaylist calls in one
\* behaviour
MaxEntryCalls == 2

EntryCallIds == 1..MaxEntryCalls

\* an addEntryToPlaylist or removeEntryFromPlaylist call that has not been made
NoEntryCall ==
    [pc |-> "idle", name |-> NoKey, party |-> NoKey, entry |-> NoEntry, hit |-> FALSE,
     cachedPlaylist |-> <<>>, playlistLastUpdatedAt |-> Unset, error |-> NoKey]

\* a getAll call that has not been made
NoScan == [pc |-> "idle", result |-> <<>>, skip |-> Null, pages |-> 0, chunk |-> 0]

\* every user is in a party and no request is in flight
RequestIdle ==
    /\ User = currParty
    /\ joinCode = JoinCodeRows
    /\ partyCall = [u \in Users |-> NoPartyCall]
    /\ likeCall = [c \in LikeCallIds |-> NoLikeCall]
    /\ cleaning = {}
    /\ searchOp = NoSearchOp
    /\ scan = NoScan
    /\ entryCall = [c \in EntryCallIds |-> NoEntryCall]

\* the state at process start with an empty store
AppIdle ==
    /\ Cache = Registry
    /\ Song = {}
    /\ songCall = [c \in CallIds |-> NoSongCall]
    /\ PlaylistEntry = {}
    /\ plCall = [c \in CallIds |-> NoPlCall]
    /\ PartyIdle
    /\ RequestIdle
    /\ SearchIdle

LRUIdle ==
    /\ lru = LRUCache(0)
    /\ last = NoCall
    /\ pre = lru
    /\ recent = <<>>
    /\ written = [k \in Keys |-> Null]

\* objectId of a row saved now
newObjectId(rows) == Cardinality(rows) + 1

\* the objectId of a new row of a class whose rows are destroyed as well
newRowId(rows) == CHOOSE i \in 1..(Cardinality(rows) + 1) : \A r \in rows : r.id # i

(***************************************************************************)
(* saveSong (utilFunctions.js 93-113). It suspends at the store query and  *)
(* at song.save(); other calls run while it is suspended.                  *)
(***************************************************************************)
\* a query that never matches
songQuery_None(rows, spotifyId) == {}

\* songQuery.equalTo("spotifyId", spotifyId): the rows first() may return
songQuery(rows, spotifyId) == {r \in rows : r.spotifyId = spotifyId}

\* lines 94-100: the song cache is asked first; a hit is returned
saveSongCall(c, spotifyId, title) ==
    /\ songCall[c].pc = "idle"
    /\ \A d \in CallIds : d < c => songCall[d].pc # "idle"
    /\ LET cachedSong == getResult(Cache.songCache, spotifyId)
       IN  /\ Cache' = [Cache EXCEPT !.songCache = get(Cache.songCache, spotifyId)]
           /\ songCall' = [songCall EXCEPT ![c] =
                  IF cachedSong # Null
                  THEN [pc |-> "done", spotifyId |-> spotifyId, title |-> title,
                        hit |-> TRUE, found |-> FALSE, result |-> cachedSong]
                  ELSE [pc |-> "query", spotifyId |-> spotifyId, title |-> title,
                        hit |-> FALSE, found |-> FALSE, result |-> Null]]
    /\ UNCHANGED <<Song, PlaylistEntry, plCall>>
    /\ UNCHANGED lruVars
    /\ UNCHANGED requestVars
    /\ UNCHANGED searchVars
    /\ UNCHANGED partyVars

\* lines 103-106, 111-112: songQuery.first() answers; a row found is cached
\* and returned, otherwise the candidate is saved next
saveSongQueried(c) ==
    /\ songCall[c].pc = "query"
    /\ LET matches == songQuery(Song, songCall[c].spotifyId)
       IN  IF matches = {}
           THEN /\ songCall' = [songCall EXCEPT ![c].pc = "save"]
                /\ UNCHANGED Cache
           ELSE \E cachedSong \in matches :
                /\ Cache' = [Cache EXCEPT !.songCache =
                                set(Cache.songCache, songCall[c].spotifyId, cachedSong.id)]
                /\ songCall' = [songCall EXCEPT ![c].pc = "done",
                                                ![c].found = TRUE,
                                                ![c].result = cachedSong.id]
    /\ UNCHANGED <<Song, PlaylistEntry, plCall>>
    /\ UNCHANGED lruVars
    /\ UNCHANGED requestVars
    /\ UNCHANGED searchVars
    /\ UNCHANGED partyVars

\* lines 108, 111-112: song.save() has persisted the candidate as a new row
saveSongSaved(c) ==
    /\ songCall[c].pc = "save"
    /\ LET cachedSong == [id |-> newObjectId(Song),
                          spotifyId |-> songCall[c].spotifyId,
                          title |-> songCall[c].title]
       IN  /\ Song' = Song \cup {cachedSong}
           /\ Cache' = [Cache EXCEPT !.songCache =
                           set(Cache.songCache, songCall[c].spotifyId, cachedSong.id)]
           /\ songCall' = [songCall EXCEPT ![c].pc = "done",
                                           ![c].result = cachedSong.id]
    /\ UNCHANGED <<PlaylistEntry, plCall>>
    /\ UNCHANGED lruVars
    /\ UNCHANGED requestVars
    /\ UNCHANGED searchVars
    /\ UNCHANGED partyVars

InitSong == LRUIdle /\ AppIdle

\* no saveSong call is suspended
NoSongCallInFlight == \A c \in CallIds : songCall[c].pc \in {"idle", "done"}

\* saveSong calls that interleave at their suspension points
NextSong ==
    \E c \in CallIds :
        \/ \E spotifyId \in SpotifyIds, title \in Titles : saveSongCall(c, spotifyId, title)
        \/ saveSongQueried(c)
        \/ saveSongSaved(c)

SpecSong == InitSong /\ [][NextSong]_vars

\* saveSong calls made one after the other: a call starts when none is suspended
NextSongSeq ==
    \E c \in CallIds :
        \/ \E spotifyId \in SpotifyIds, title \in Titles :
              NoSongCallInFlight /\ saveSongCall(c, spotifyId, title)
        \/ saveSongQueried(c)
        \/ saveSongSaved(c)

SpecSongSeq == InitSong /\ [][NextSongSeq]_vars

(***************************************************************************)
(* getCachedPlaylist and cachePlaylist (utilFunctions.js 308-314, 52-61)   *)
(***************************************************************************)
\* the contents the PlaylistEntry class may have when the process starts:
\* rows 1..n, each of some party, for some song, with some score
PlaylistStores ==
    UNION {{ {[id |-> i, party |-> f[i].party, song |-> f[i].song, score |-> f[i].score]
                : i \in 1..n}
             : f \in [1..n -> [party : PartyIds, song : SpotifyIds, score : Scores]]}
           : n \in 0..MaxEntries}

\* getPlaylistForParty: the rows of the party by descending score, in each
\* order the store may return rows of equal score
getPlaylistForParty(rows, party) ==
    LET mine == {r \in rows : r.party = party}
        n    == Cardinality(mine)
    IN  {f \in [1..n -> mine] :
            /\ \A i, j \in 1..n : i # j => f[i] # f[j]
            /\ \A i, j \in 1..n : i < j => f[i].score >= f[j].score}

\* cachePlaylist, lines 54-57: a Map filled by playlist.set(spotifyId, entry)
\* for the entries in order, so the last entry of a song is the one kept.
\* The Map holds the entry objects the query returned: copies of the rows as
\* they were then
toPlaylist(entries) ==
    [k \in {entries[i].song : i \in 1..Len(entries)} |->
        LET at == {i \in 1..Len(entries) : entries[i].song = k}
        IN  entries[CHOOSE i \in at : \A j \in at : j <= i]]

\* getCachedPlaylist, lines 309-310: Cache.playlistCache.get(party.id).
\* Cache.playlistCache is undefined unless cache.js exports it, and the
\* property access on undefined throws a TypeError before anything else.
\* With the cache registered, a hit returns the held mapping and a miss
\* goes on to cachePlaylist, which suspends at the store query.
getCachedPlaylistCall(c, party) ==
    /\ plCall[c].pc = "idle"
    /\ \A d \in CallIds : d < c => plCall[d].pc # "idle"
    /\ IF "playlistCache" \notin DOMAIN Cache
       THEN /\ plCall' = [plCall EXCEPT ![c] =
                   [NoPlCall EXCEPT !.pc = "done", !.party = party, !.error = "TypeError"]]
            /\ UNCHANGED Cache
       ELSE IF party \in DOMAIN Cache.playlistCache.map
       THEN /\ plCall' = [plCall EXCEPT ![c] =
                   [NoPlCall EXCEPT !.pc = "done", !.party = party, !.hit = TRUE,
                                    !.result = getResult(Cache.playlistCache, party)]]
            /\ Cache' = [Cache EXCEPT !.playlistCache = get(Cache.playlistCache, party)]
       ELSE /\ plCall' = [plCall EXCEPT ![c] =
                   [NoPlCall EXCEPT !.pc = "find", !.party = party]]
            /\ UNCHANGED Cache
    /\ UNCHANGED <<Song, songCall, PlaylistEntry>>
    /\ UNCHANGED lruVars
    /\ UNCHANGED requestVars
    /\ UNCHANGED searchVars
    /\ UNCHANGED partyVars

\* cachePlaylist, lines 53-60: the query has answered; the mapping is built,
\* stored in the playlist cache under party.id and returned
cachePlaylistFound(c) ==
    /\ plCall[c].pc = "find"
    /\ \E entries \in getPlaylistForParty(PlaylistEntry, plCall[c].party) :
          LET playlist == toPlaylist(entries)
          IN  /\ Cache' = [Cache EXCEPT !.playlistCache =
                              set(Cache.playlistCache, plCall[c].party, playlist)]
              /\ plCall' = [plCall EXCEPT ![c].pc = "done",
                                          ![c].rows = {entries[i] : i \in 1..Len(entries)},
                                          ![c].result = playlist]
    /\ UNCHANGED <<Song, songCall, PlaylistEntry>>
    /\ UNCHANGED lruVars
    /\ UNCHANGED requestVars
    /\ UNCHANGED searchVars
    /\ UNCHANGED partyVars

\* process start over a store that already holds playlist entries
InitPlaylist ==
    /\ LRUIdle
    /\ Cache = Registry
    /\ Song = {}
    /\ songCall = [c \in CallIds |-> NoSongCall]
    /\ PlaylistEntry \in PlaylistStores
    /\ plCall = [c \in CallIds |-> NoPlCall]
    /\ PartyIdle
    /\ RequestIdle
    /\ SearchIdle

NextPlaylist == \E c \in CallIds, party \in PartyIds : getCachedPlaylistCall(c, party)

SpecPlaylist == InitPlaylist /\ [][NextPlaylist]_vars

\* The registry as section 4.2 of the specification describes it, with the
\* playlist cache that getCachedPlaylist and cachePlaylist use
RegistryWithPlaylist ==
    [searchCache   |-> LRUCache(SearchCacheSize),
     songCache     |-> LRUCache(SongCacheSize),
     partyCache    |-> LRUCache(PartyCacheSize),
     playlistCache |-> LRUCache(PlaylistCacheSize)]

InitPlaylistRegistered ==
    /\ LRUIdle
    /\ Cache = RegistryWithPlaylist
    /\ Song = {}
    /\ songCall = [c \in CallIds |-> NoSongCall]
    /\ PlaylistEntry \in PlaylistStores
    /\ plCall = [c \in CallIds |-> NoPlCall]
    /\ PartyIdle
    /\ RequestIdle
    /\ SearchIdle

NextPlaylistRegistered ==
    \E c \in CallIds :
        \/ \E party \in PartyIds : getCachedPlaylistCall(c, party)
        \/ cachePlaylistFound(c)

SpecPlaylistRegistered == InitPlaylistRegistered /\ [][NextPlaylistRegistered]_vars

(***************************************************************************)
(* The playlist operations (playlistFunctions.js) and the utilities they   *)
(* call (utilFunctions.js), each run from its first statement to its       *)
(* return or throw before the next one starts                              *)
(***************************************************************************)
\* playlist operations in one behaviour
MaxOps == 3

\* PlaylistEntry rows present at process start
MaxStored == 1

\* party.get("admin"): u1 created p1; the creator of p2 is not among Users
admin == [p \in PartyIds |-> IF p = "p1" THEN "u1" ELSE "u0"]

\* request.params.entryId: the id of a row, or one that no row has
EntryIds(rows) == {r.id : r \in rows} \cup {Null}

\* request.params.title: the title Spotify gives the song
titleOf == [k \in SpotifyIds |-> IF k = "s1" THEN "t1" ELSE "t2"]

\* the objectId of a Song row, the key getCachedPlaylist uses when it is
\* handed a Song where a Party is expected
songObjectId(id) == <<"o1", "o2", "o3", "o4">>[id]

\* rows as addSong saves them (numLikes 0, no score), or with the score 0
\* that updateEntryScore computes for them
StoredEntries ==
    UNION {{ {[id |-> i, party |-> f[i].party, song |-> f[i].song,
               numLikes |-> 0, score |-> f[i].score] : i \in 1..n}
             : f \in [1..n -> [party : PartyIds, song : SpotifyIds, score : {Unset, 0}]]}
           : n \in 0..MaxStored}

\* getPartyFromUser, lines 25-36: the party cache is asked for the user's
\* party and filled on a miss
getPartyFromUser(C, party) ==
    IF party \in DOMAIN C.partyCache.map
    THEN [C EXCEPT !.partyCache = get(C.partyCache, party)]
    ELSE [C EXCEPT !.partyCache = set(C.partyCache, party, party)]

\* a check that lets every user pass
isUserAdmin_Always(user, party) == TRUE

\* isUserAdmin
isUserAdmin(user, party) == admin[party] = user

\* saveSong run to completion: the registry and the Song rows it leaves and
\* the row it returns. At most one row matches when calls do not overlap.
saveSong(C, rows, spotifyId, title) ==
    LET cachedSong == getResult(C.songCache, spotifyId)
        matches    == songQuery(rows, spotifyId)
    IN  IF spotifyId \in DOMAIN C.songCache.map
        THEN [Cache |-> [C EXCEPT !.songCache = get(C.songCache, spotifyId)],
              Song |-> rows, id |-> cachedSong]
        ELSE IF matches # {}
        THEN LET found == CHOOSE r \in matches : TRUE
             IN  [Cache |-> [C EXCEPT !.songCache = set(C.songCache, spotifyId, found.id)],
                  Song |-> rows, id |-> found.id]
        ELSE LET id == newObjectId(rows)
             IN  [Cache |-> [C EXCEPT !.songCache = set(C.songCache, spotifyId, id)],
                  Song |-> rows \cup {[id |-> id, spotifyId |-> spotifyId, title |-> title]},
                  id |-> id]

\* getCachedPlaylist run to completion with the playlist cache registered:
\* the held Map on a hit; on a miss cachePlaylist builds one from `entries`,
\* the answer of the store query, and caches it under the key
getCachedPlaylist(C, key, entries) ==
    IF key \in DOMAIN C.playlistCache.map
    THEN [Cache |-> [C EXCEPT !.playlistCache = get(C.playlistCache, key)],
          playlist |-> getResult(C.playlistCache, key)]
    ELSE [Cache |-> [C EXCEPT !.playlistCache = set(C.playlistCache, key, toPlaylist(entries))],
          playlist |-> toPlaylist(entries)]

\* the Map object held under the key is changed in place
mutatePlaylist(C, key, playlist) ==
    [C EXCEPT !.playlistCache.node[C.playlistCache.map[key]].value = playlist]

\* a sort that leaves the values in any order
getPlaylistAsString_Unsorted(playlist) ==
    LET values == {playlist[k] : k \in DOMAIN playlist}
        n      == Cardinality(values)
    IN  {f \in [1..n -> values] : \A i, j \in 1..n : i # j => f[i] # f[j]}

\* getPlaylistAsString: [...playlist.values()].sort((a, b) => b.score - a.score).
\* The sort orders the values by descending score; the order of values of
\* equal score follows the Map, which is not tracked. A comparison with an
\* undefined score is NaN, and the order Array.prototype.sort leaves with
\* such a comparator is implementation-defined.
getPlaylistAsString(playlist) ==
    LET values == {playlist[k] : k \in DOMAIN playlist}
        n      == Cardinality(values)
    IN  {f \in [1..n -> values] :
            /\ \A i, j \in 1..n : i # j => f[i] # f[j]
            /\ (\A v \in values : v.score # Unset) =>
                   \A i, j \in 1..n : i < j => f[i].score >= f[j].score}

\* the Maps the playlist cache holds, by key
cachedPlaylists(C) ==
    IF "playlistCache" \notin DOMAIN C
    THEN EmptyMap
    ELSE [k \in DOMAIN C.playlistCache.map |-> getResult(C.playlistCache, k)]

\* the record of an operation that starts now
StartOp(name, user, party, entry, song) ==
    [name |-> name, user |-> user, party |-> party, entry |-> entry,
     song |-> song, error |-> NoKey, object |-> NoEntry,
     before |-> cachedPlaylists(Cache)]

\* an operation ends in a throw, having changed the registry at most
Throw(C, op, error) ==
    /\ Cache' = C
    /\ plOp' = [op EXCEPT !.error = error]
    /\ UNCHANGED <<Song, PlaylistEntry, Party, Like>>

\* indicatePlaylistUpdated, lines 298-306, as the last step of an operation
\* that leaves the rows PlaylistEntry': getCachedPlaylist throws where no
\* playlist cache is registered; otherwise the snapshot of the Map and the
\* time are set on the party and saved with it. `playing` is the currPlaying
\* the party object carries when the operation returns, `playingSaved` the
\* one it had saved before this call.
indicatePlaylistUpdated(C, party, op, playingSaved, playing) ==
    IF "playlistCache" \notin DOMAIN C
    THEN /\ Cache' = C
         /\ Party' = [Party EXCEPT ![party].currPlaying = playingSaved]
         /\ plOp' = [op EXCEPT !.error = "TypeError"]
    ELSE \E entries \in getPlaylistForParty(PlaylistEntry', party) :
            LET cached == getCachedPlaylist(C, party, entries)
            IN  \E cachedPlaylist \in getPlaylistAsString(cached.playlist) :
                    /\ Cache' = cached.Cache
                    /\ Party' = [Party EXCEPT ![party] =
                                    [@ EXCEPT !.cachedPlaylist = cachedPlaylist,
                                              !.playlistLastUpdatedAt = now',
                                              !.currPlaying = playing]]
                    /\ plOp' = op

\* getEntryById: query.get(entryId) returns the row or rejects
getEntryById(rows, entryId) == {r \in rows : r.id = entryId}

\* entry.destroy(), and cleanupLikes run by the afterDelete trigger
destroyEntry(entry) ==
    /\ PlaylistEntry' = PlaylistEntry \ {entry}
    /\ Like' = {l \in Like : l.entry # entry.id}

\* updateEntryScore, lines 257-263: entry.set("score", numLikes) on the
\* entry object in memory; plOp.object is the entry object the operation
\* holds when it returns
updateEntryScore(entry) == [entry EXCEPT !.score = entry.numLikes]

\* addSong, lines 24-62. atLimit: songsAdded >= songLimit.
addSong(user, spotifyId, title, atLimit) ==
    /\ now < MaxOps
    /\ now' = now + 1
    /\ LET party == currParty[user]
           op    == StartOp("addSong", user, party, Null, spotifyId)
           C1    == getPartyFromUser(Cache, party)
           saved == saveSong(C1, Song, spotifyId, title)
       IN  IF atLimit
           THEN Throw(C1, op, "User has reached the song limit!")
           ELSE IF "playlistCache" \notin DOMAIN saved.Cache
           THEN /\ Cache' = saved.Cache
                /\ Song' = saved.Song
                /\ plOp' = [op EXCEPT !.error = "TypeError"]
                /\ UNCHANGED <<PlaylistEntry, Party, Like>>
           ELSE \* Util.getPlaylistEntry(cachedSong, party): the Song is
                \* taken for the party, the party for the spotifyId
                \E entries \in getPlaylistForParty(PlaylistEntry, songObjectId(saved.id)) :
                   LET cached == getCachedPlaylist(saved.Cache, songObjectId(saved.id), entries)
                       entry  == [id |-> MaxStored + now', party |-> party, song |-> spotifyId,
                                  numLikes |-> 0, score |-> Unset]
                   IN  IF party \in DOMAIN cached.playlist
                       THEN /\ Cache' = cached.Cache
                            /\ Song' = saved.Song
                            /\ plOp' = [op EXCEPT !.error = "Song is already in the playlist!"]
                            /\ UNCHANGED <<PlaylistEntry, Party, Like>>
                       ELSE \* entry.save() comes before updateEntryScore(entry):
                            \* the score is set on the object and never saved
                            /\ Song' = saved.Song
                            /\ PlaylistEntry' = PlaylistEntry \cup {entry}
                            /\ UNCHANGED Like
                            /\ indicatePlaylistUpdated(cached.Cache, party,
                                   [op EXCEPT !.entry = entry.id,
                                              !.object = updateEntryScore(entry)],
                                   Party[party].currPlaying, Party[party].currPlaying)
    /\ UNCHANGED <<songCall, plCall>>
    /\ UNCHANGED lruVars
    /\ UNCHANGED requestVars
    /\ UNCHANGED searchVars

\* removeSong, lines 72-86
removeSong(user, entryId) ==
    /\ now < MaxOps
    /\ now' = now + 1
    /\ LET party == User[user]
           op    == StartOp("removeSong", user, party, entryId, NoKey)
           C1    == getPartyFromUser(Cache, party)
       IN  IF party = NoKey
           THEN Throw(Cache, op, "TypeError")
           ELSE IF ~isUserAdmin(user, party)
           THEN Throw(C1, op, "User is not the admin of their party!")
           ELSE IF getEntryById(PlaylistEntry, entryId) = {}
           THEN Throw(C1, op, "Object not found.")
           ELSE \E entry \in getEntryById(PlaylistEntry, entryId) :
                   /\ destroyEntry(entry)
                   /\ UNCHANGED Song
                   /\ indicatePlaylistUpdated(C1, party, [op EXCEPT !.song = entry.song],
                          Party[party].currPlaying, Party[party].currPlaying)
    /\ UNCHANGED <<songCall, plCall>>
    /\ UNCHANGED lruVars
    /\ UNCHANGED requestVars
    /\ UNCHANGED searchVars

\* getNextSong, lines 96-117. Util.getPlaylistForParty(user, party) hands the
\* user to the one-parameter getPlaylistForParty(party).
getNextSong(user) ==
    /\ now < MaxOps
    /\ now' = now + 1
    /\ LET party == User[user]
           op    == StartOp("getNextSong", user, party, Null, NoKey)
           C1    == getPartyFromUser(Cache, party)
       IN  IF party = NoKey
           THEN Throw(Cache, op, "TypeError")
           ELSE IF ~isUserAdmin(user, party)
           THEN Throw(C1, op, "User is not the admin of their party!")
           ELSE \E playlist \in getPlaylistForParty(PlaylistEntry, user) :
                   IF Len(playlist) = 0
                   THEN Throw(C1, op, "The playlist is empty")
                   ELSE /\ destroyEntry(playlist[1])
                        /\ UNCHANGED Song
                        /\ indicatePlaylistUpdated(C1, party,
                               [op EXCEPT !.entry = playlist[1].id, !.song = playlist[1].song],
                               Party[party].currPlaying, playlist[1].song)
    /\ UNCHANGED <<songCall, plCall>>
    /\ UNCHANGED lruVars
    /\ UNCHANGED requestVars
    /\ UNCHANGED searchVars

\* setCurrentlyPlayingEntry, lines 154-172
setCurrentlyPlayingEntry(user, entryId) ==
    /\ now < MaxOps
    /\ now' = now + 1
    /\ LET party == User[user]
           op    == StartOp("setCurrentlyPlayingEntry", user, party, entryId, NoKey)
           C1    == getPartyFromUser(Cache, party)
       IN  IF party = NoKey
           THEN Throw(Cache, op, "TypeError")
           ELSE IF ~isUserAdmin(user, party)
           THEN Throw(C1, op, "User is not the admin of their party!")
           ELSE IF getEntryById(PlaylistEntry, entryId) = {}
           THEN Throw(C1, op, "Object not found.")
           ELSE \E entry \in getEntryById(PlaylistEntry, entryId) :
                   /\ destroyEntry(entry)
                   /\ UNCHANGED Song
                   /\ indicatePlaylistUpdated(C1, party, [op EXCEPT !.song = entry.song],
                          entry.song, entry.song)
    /\ UNCHANGED <<songCall, plCall>>
    /\ UNCHANGED lruVars
    /\ UNCHANGED requestVars
    /\ UNCHANGED searchVars

\* isEntryLikedByUser, getLike: the Like rows of the user for the entry
getLike(likes, entryId, user) == {l \in likes : l.entry = entryId /\ l.user = user}

\* likeSong, lines 182-204: like.save(), then entry.save() with numLikes + 1,
\* then updateEntryScore on the object, which nothing saves
likeSong(user, entryId) ==
    /\ now < MaxOps
    /\ now' = now + 1
    /\ LET party == currParty[user]
           op    == StartOp("likeSong", user, party, entryId, NoKey)
           C1    == getPartyFromUser(Cache, party)
       IN  IF getEntryById(PlaylistEntry, entryId) = {}
           THEN Throw(C1, op, "Object not found.")
           ELSE IF getLike(Like, entryId, user) # {}
           THEN Throw(C1, op, "User has already liked the song!")
           ELSE \E entry \in getEntryById(PlaylistEntry, entryId) :
                   /\ Like' = Like \cup {[id |-> newRowId(Like), entry |-> entryId,
                                             user |-> user]}
                   /\ PlaylistEntry' = (PlaylistEntry \ {entry})
                                          \cup {[entry EXCEPT !.numLikes = entry.numLikes + 1]}
                   /\ UNCHANGED Song
                   /\ indicatePlaylistUpdated(C1, party,
                          [op EXCEPT !.song = entry.song,
                                     !.object = updateEntryScore(
                                         [entry EXCEPT !.numLikes = entry.numLikes + 1])],
                          Party[party].currPlaying, Party[party].currPlaying)
    /\ UNCHANGED <<songCall, plCall>>
    /\ UNCHANGED lruVars
    /\ UNCHANGED requestVars
    /\ UNCHANGED searchVars

\* unlikeSong, lines 214-233
unlikeSong(user, entryId) ==
    /\ now < MaxOps
    /\ now' = now + 1
    /\ LET party == currParty[user]
           op    == StartOp("unlikeSong", user, party, entryId, NoKey)
           C1    == getPartyFromUser(Cache, party)
       IN  IF getEntryById(PlaylistEntry, entryId) = {}
           THEN Throw(C1, op, "Object not found.")
           ELSE IF getLike(Like, entryId, user) = {}
           THEN Throw(C1, op, "User has not liked the song!")
           ELSE \E entry \in getEntryById(PlaylistEntry, entryId) :
                   /\ Like' = Like \ getLike(Like, entryId, user)
                   /\ PlaylistEntry' = (PlaylistEntry \ {entry})
                                          \cup {[entry EXCEPT !.numLikes = entry.numLikes - 1]}
                   /\ UNCHANGED Song
                   /\ indicatePlaylistUpdated(C1, party,
                          [op EXCEPT !.song = entry.song,
                                     !.object = updateEntryScore(
                                         [entry EXCEPT !.numLikes = entry.numLikes - 1])],
                          Party[party].currPlaying, Party[party].currPlaying)
    /\ UNCHANGED <<songCall, plCall>>
    /\ UNCHANGED lruVars
    /\ UNCHANGED requestVars
    /\ UNCHANGED searchVars

\* process start over a store that already holds playlist entries
InitOps ==
    /\ LRUIdle
    /\ Cache = Registry
    /\ Song = {}
    /\ songCall = [c \in CallIds |-> NoSongCall]
    /\ PlaylistEntry \in StoredEntries
    /\ plCall = [c \in CallIds |-> NoPlCall]
    /\ PartyIdle
    /\ RequestIdle
    /\ SearchIdle

NextOps ==
    \/ \E user \in Users, spotifyId \in SpotifyIds, atLimit \in BOOLEAN :
          addSong(user, spotifyId, titleOf[spotifyId], atLimit)
    \/ \E user \in Users, entryId \in EntryIds(PlaylistEntry) : removeSong(user, entryId)
    \/ \E user \in Users : getNextSong(user)
    \/ \E user \in Users, entryId \in EntryIds(PlaylistEntry) : setCurrentlyPlayingEntry(user, entryId)
    \/ \E user \in Users, entryId \in EntryIds(PlaylistEntry) : likeSong(user, entryId)
    \/ \E user \in Users, entryId \in EntryIds(PlaylistEntry) : unlikeSong(user, entryId)

\* the playlist operations over the registry of cache.js
SpecOps == InitOps /\ [][NextOps]_vars

\* the same operations with the playlist cache of section 4.2 registered
InitOpsRegistered ==
    /\ LRUIdle
    /\ Cache = RegistryWithPlaylist
    /\ Song = {}
    /\ songCall = [c \in CallIds |-> NoSongCall]
    /\ PlaylistEntry \in StoredEntries
    /\ plCall = [c \in CallIds |-> NoPlCall]
    /\ PartyIdle
    /\ RequestIdle
    /\ SearchIdle

SpecOpsRegistered == InitOpsRegistered /\ [][NextOps]_vars

(***************************************************************************)
(* The playlist utilities of utilFunctions.js called on their own          *)
(***************************************************************************)
\* the entry objects a caller hands to addEntryToPlaylist and
\* removeEntryFromPlaylist
EntryObjects(party) ==
    [id : 1..2, party : {party}, song : SpotifyIds, numLikes : {0}, score : {Unset, 0, 1}]

\* indicatePlaylistUpdated(party), lines 298-306, called on its own
indicatePlaylistUpdatedCall(party) ==
    /\ now < MaxOps
    /\ now' = now + 1
    /\ UNCHANGED <<Song, PlaylistEntry, Like>>
    /\ indicatePlaylistUpdated(Cache, party,
           StartOp("indicatePlaylistUpdated", NoKey, party, Null, NoKey),
           Party[party].currPlaying, Party[party].currPlaying)
    /\ UNCHANGED <<songCall, plCall>>
    /\ UNCHANGED lruVars
    /\ UNCHANGED requestVars
    /\ UNCHANGED searchVars

\* addEntryToPlaylist, lines 280-287: the Map getCachedPlaylist returns is
\* changed in place, then indicatePlaylistUpdated(party) is called without
\* await; it runs on to its snapshot before anything else can run
addEntryToPlaylist(party, entry) ==
    /\ now < MaxOps
    /\ now' = now + 1
    /\ LET op == [StartOp("addEntryToPlaylist", NoKey, party, entry.id, entry.song)
                     EXCEPT !.object = entry]
       IN  IF "playlistCache" \notin DOMAIN Cache
           THEN Throw(Cache, op, "TypeError")
           ELSE \E entries \in getPlaylistForParty(PlaylistEntry, party) :
                   LET cached   == getCachedPlaylist(Cache, party, entries)
                       playlist == mapSet(cached.playlist, entry.song, entry)
                   IN  /\ UNCHANGED <<Song, PlaylistEntry, Like>>
                       /\ indicatePlaylistUpdated(
                              mutatePlaylist(cached.Cache, party, playlist), party, op,
                              Party[party].currPlaying, Party[party].currPlaying)
    /\ UNCHANGED <<songCall, plCall>>
    /\ UNCHANGED lruVars
    /\ UNCHANGED requestVars
    /\ UNCHANGED searchVars

\* removeEntryFromPlaylist, lines 289-296
removeEntryFromPlaylist(party, entry) ==
    /\ now < MaxOps
    /\ now' = now + 1
    /\ LET op == [StartOp("removeEntryFromPlaylist", NoKey, party, entry.id, entry.song)
                     EXCEPT !.object = entry]
       IN  IF "playlistCache" \notin DOMAIN Cache
           THEN Throw(Cache, op, "TypeError")
           ELSE \E entries \in getPlaylistForParty(PlaylistEntry, party) :
                   LET cached   == getCachedPlaylist(Cache, party, entries)
                       playlist == mapDelete(cached.playlist, entry.song)
                   IN  /\ UNCHANGED <<Song, PlaylistEntry, Like>>
                       /\ indicatePlaylistUpdated(
                              mutatePlaylist(cached.Cache, party, playlist), party, op,
                              Party[party].currPlaying, Party[party].currPlaying)
    /\ UNCHANGED <<songCall, plCall>>
    /\ UNCHANGED lruVars
    /\ UNCHANGED requestVars
    /\ UNCHANGED searchVars

NextUtil ==
    \/ \E party \in PartyIds : indicatePlaylistUpdatedCall(party)
    \/ \E party \in PartyIds :
          \E entry \in EntryObjects(party) : addEntryToPlaylist(party, entry)
    \/ \E party \in PartyIds :
          \E entry \in EntryObjects(party) : removeEntryFromPlaylist(party, entry)

\* the playlist utilities over the registry of cache.js
SpecUtil == InitOps /\ [][NextUtil]_vars

\* the same with the playlist cache of section 4.2 registered
SpecUtilRegistered == InitOpsRegistered /\ [][NextUtil]_vars

(***************************************************************************)
(* addEntryToPlaylist and removeEntryFromPlaylist (utilFunctions.js         *)
(* 280-296) as interleaved calls: a call suspends at the store query of     *)
(* cachePlaylist and at party.save() of the indicatePlaylistUpdated it      *)
(* starts, and other calls run meanwhile. The statements between two store  *)
(* requests run without interruption.                                      *)
(***************************************************************************)
\* the entries of two songs in party p1 and of one song in p2
EntryRows ==
    {[id |-> 1, party |-> "p1", song |-> "s1", numLikes |-> 1, score |-> 1],
     [id |-> 2, party |-> "p1", song |-> "s2", numLikes |-> 0, score |-> 0],
     [id |-> 3, party |-> "p2", song |-> "s1", numLikes |-> 0, score |-> 0]}

\* the PlaylistEntry rows when the calls start
EntryStores == (SUBSET EntryRows) \ {{}}

\* the names of the two utilities
EntryCallNames == {"addEntryToPlaylist", "removeEntryFromPlaylist"}

\* lines 283-286 and 292-295, then indicatePlaylistUpdated, lines 299-303:
\* the mapping is changed in place, the snapshot of the mapping the cache
\* holds then is set on the party, and party.save() is sent
entryCallMutated(c, call, cached) ==
    LET playlist == IF call.name = "addEntryToPlaylist"
                    THEN mapSet(cached.playlist, call.entry.song, call.entry)
                    ELSE mapDelete(cached.playlist, call.entry.song)
        mutated  == mutatePlaylist(cached.Cache, call.party, playlist)
    IN  \E cachedPlaylist \in getPlaylistAsString(playlist) :
            /\ Cache' = [mutated EXCEPT !.playlistCache = get(@, call.party)]
            /\ now' = now + 1
            /\ entryCall' = [entryCall EXCEPT ![c] =
                   [call EXCEPT !.pc = "save", !.cachedPlaylist = cachedPlaylist,
                                !.playlistLastUpdatedAt = now']]

\* addEntryToPlaylist, line 281, and removeEntryFromPlaylist, line 290:
\* getCachedPlaylist throws a TypeError when the registry has no playlist
\* cache, goes on with the mapping the cache holds, or suspends at the store
\* query of cachePlaylist
entryCallStart(c, name, party, entry) ==
    LET call == [NoEntryCall EXCEPT !.name = name, !.party = party, !.entry = entry]
    IN  /\ entryCall[c].pc = "idle"
        /\ IF "playlistCache" \notin DOMAIN Cache
           THEN /\ entryCall' = [entryCall EXCEPT ![c] =
                       [call EXCEPT !.pc = "failed", !.error = "TypeError"]]
                /\ UNCHANGED <<Cache, now>>
           ELSE IF party \in DOMAIN Cache.playlistCache.map
           THEN entryCallMutated(c, [call EXCEPT !.hit = TRUE],
                                 getCachedPlaylist(Cache, party, <<>>))
           ELSE /\ entryCall' = [entryCall EXCEPT ![c] = [call EXCEPT !.pc = "find"]]
                /\ UNCHANGED <<Cache, now>>
        /\ UNCHANGED <<Song, songCall, PlaylistEntry, plCall>>
        /\ UNCHANGED <<User, joinCode, partyCall, likeCall, cleaning, searchOp, scan>>
        /\ UNCHANGED <<Party, Like, plOp>>
        /\ UNCHANGED searchVars
        /\ UNCHANGED lruVars

\* cachePlaylist, lines 53-60: the store answers the query; the mapping is
\* built and put into the playlist cache, and the call goes on with it
entryCallFound(c) ==
    /\ entryCall[c].pc = "find"
    /\ \E entries \in getPlaylistForParty(PlaylistEntry, entryCall[c].party) :
          entryCallMutated(c, entryCall[c],
              [Cache    |-> [Cache EXCEPT !.playlistCache =
                                set(@, entryCall[c].party, toPlaylist(entries))],
               playlist |-> toPlaylist(entries)])
    /\ UNCHANGED <<Song, songCall, PlaylistEntry, plCall>>
    /\ UNCHANGED <<User, joinCode, partyCall, likeCall, cleaning, searchOp, scan>>
    /\ UNCHANGED <<Party, Like, plOp>>
    /\ UNCHANGED searchVars
    /\ UNCHANGED lruVars

\* indicatePlaylistUpdated, line 303: party.save() of the call takes effect
entryCallSaved(c) ==
    /\ entryCall[c].pc = "save"
    /\ Party' = [Party EXCEPT ![entryCall[c].party] =
                    [@ EXCEPT !.cachedPlaylist = entryCall[c].cachedPlaylist,
                              !.playlistLastUpdatedAt = entryCall[c].playlistLastUpdatedAt]]
    /\ entryCall' = [entryCall EXCEPT ![c].pc = "done"]
    /\ UNCHANGED <<Cache, Song, songCall, PlaylistEntry, plCall>>
    /\ UNCHANGED <<User, joinCode, partyCall, likeCall, cleaning, searchOp, scan>>
    /\ UNCHANGED <<Like, plOp, now>>
    /\ UNCHANGED searchVars
    /\ UNCHANGED lruVars

InitEntry ==
    /\ LRUIdle
    /\ Cache = Registry
    /\ Song = {}
    /\ songCall = [c \in CallIds |-> NoSongCall]
    /\ PlaylistEntry \in EntryStores
    /\ plCall = [c \in CallIds |-> NoPlCall]
    /\ PartyIdle
    /\ RequestIdle
    /\ SearchIdle

NextEntry ==
    \E c \in EntryCallIds, name \in EntryCallNames, entry \in PlaylistEntry :
        entryCallStart(c, name, entry.party, entry)

\* the calls over the registry of cache.js, where each ends at its first
\* statement
SpecEntry == InitEntry /\ [][NextEntry]_vars

InitEntryRegistered ==
    /\ LRUIdle
    /\ Cache = RegistryWithPlaylist
    /\ Song = {}
    /\ songCall = [c \in CallIds |-> NoSongCall]
    /\ PlaylistEntry \in EntryStores
    /\ plCall = [c \in CallIds |-> NoPlCall]
    /\ PartyIdle
    /\ RequestIdle
    /\ SearchIdle

NextEntryRegistered ==
    \/ \E c \in EntryCallIds, name \in EntryCallNames, entry \in PlaylistEntry :
          entryCallStart(c, name, entry.party, entry)
    \/ \E c \in EntryCallIds : entryCallFound(c)
    \/ \E c \in EntryCallIds : entryCallSaved(c)

\* the calls with the playlist cache registered
SpecEntryRegistered == InitEntryRegistered /\ [][NextEntryRegistered]_vars

(***************************************************************************)
(* The search-cache jobs (spotifyAPI.js): consolidateSearchCache           *)
(***************************************************************************)
\* SearchCache rows present when a job starts
MaxRecords == 3

\* runs of a job in one behaviour
MaxRuns == 2

\* the query strings of the persisted records, as character sequences
Seeds == {<<"a">>, <<"a", "b">>, <<"a", "c">>}

\* the Song rows the persisted records refer to
SongRows ==
    {[id |-> 1, spotifyId |-> "s1", title |-> "t1"],
     [id |-> 2, spotifyId |-> "s2", title |-> "t2"]}

\* the songs list formatSearchResult saved with row i: searches made at
\* different times were answered with different tracks
SongLists == [i \in 1..MaxRecords |-> IF i % 2 = 1 THEN <<1>> ELSE <<2>>]

\* the contents of the SearchCache class when a job starts: rows 1..n, each
\* with the query and the songs formatSearchResult gave it
SearchStores ==
    UNION {{ {[id |-> i, query |-> f[i], songs |-> SongLists[i]] : i \in 1..n}
             : f \in [1..n -> Seeds]}
           : n \in 0..MaxRecords}

RECURSIVE getAll(_)
\* getAll, lines 168-190: every row of the class by ascending objectId
getAll(rows) ==
    IF rows = {}
    THEN <<>>
    ELSE LET first == CHOOSE r \in rows : \A o \in rows : r.id <= o.id
         IN  <<first>> \o getAll(rows \ {first})

\* getAll, line 171: the rows of one page (1000 in the source)
chunk_size == 2

\* getAll, lines 176-180, with greaterThanOrEqualTo in line 178
find_Inclusive(rows, skip) ==
    LET sorted == getAll({r \in rows : skip = Null \/ r.id >= skip})
    IN  SubSeq(sorted, 1, IF Len(sorted) < chunk_size THEN Len(sorted) ELSE chunk_size)

\* getAll, lines 176-180: the query of one page, ascending by objectId, above
\* skip when skip is set, limited to the chunk size
find(rows, skip) ==
    LET sorted == getAll({r \in rows : skip = Null \/ r.id > skip})
    IN  SubSeq(sorted, 1, IF Len(sorted) < chunk_size THEN Len(sorted) ELSE chunk_size)

\* getAll, lines 169-171: the call starts with no result and no skip
getAllCall ==
    /\ scan.pc = "idle"
    /\ scan' = [NoScan EXCEPT !.pc = "find"]
    /\ UNCHANGED <<Cache, Song, songCall, PlaylistEntry, plCall>>
    /\ UNCHANGED <<User, joinCode, partyCall, likeCall, cleaning, searchOp, entryCall>>
    /\ UNCHANGED partyVars
    /\ UNCHANGED searchVars
    /\ UNCHANGED lruVars

\* getAll, lines 173-187: the store answers the query of a page; the page is
\* appended, and the loop goes on above the last id of a full page and ends
\* at a shorter page
getAllChunk ==
    LET chunk == find(SearchCache, scan.skip)
    IN  /\ scan.pc = "find"
        /\ scan' = [pc     |-> IF Len(chunk) = chunk_size THEN "find" ELSE "done",
                    result |-> scan.result \o chunk,
                    skip   |-> IF Len(chunk) = chunk_size
                               THEN chunk[Len(chunk)].id ELSE scan.skip,
                    pages  |-> scan.pages + 1,
                    chunk  |-> Len(chunk)]
        /\ UNCHANGED <<Cache, Song, songCall, PlaylistEntry, plCall>>
        /\ UNCHANGED <<User, joinCode, partyCall, likeCall, cleaning, searchOp, entryCall>>
        /\ UNCHANGED partyVars
        /\ UNCHANGED searchVars
        /\ UNCHANGED lruVars

\* buildQuerySet, lines 192-195: a Set of the rows' queries; it iterates in
\* the order of first insertion
buildQuerySet(searchCaches) ==
    LET first == SelectSeq([i \in 1..Len(searchCaches) |-> i],
                     LAMBDA i : \A j \in 1..(i - 1) :
                                    searchCaches[j].query # searchCaches[i].query)
    IN  [i \in 1..Len(first) |-> searchCaches[first[i]].query]

\* cachedResult.get("song"): no code sets an attribute "song" on a
\* SearchCache row (formatSearchResult and consolidateCache set "songs")
getSong(cachedResult) == Unset

\* a consolidateCache that never returns early
alreadyConsolidated_Never(results) == FALSE

\* consolidateCache, line 214: results.length == 1 && results[0].get("songs").
\* A songs attribute is an array, and any array, the empty one too, is truthy.
alreadyConsolidated(results) ==
    /\ Cardinality(results) = 1
    /\ \A r \in results : "songs" \in DOMAIN r

\* consolidateCache, lines 218-222: one get("song") pushed per record
formattedResult(results) == [i \in 1..Cardinality(results) |-> getSong(getAll(results)[i])]

\* objectId of the SearchCache row saved now
newRecordId == MaxRecords + job.created + 1

\* consolidateSearchCache, lines 83-91: the job starts, reads all rows and
\* collects their queries
consolidateSearchCacheStart ==
    /\ job.pc \in {"idle", "done"}
    /\ job.runs < MaxRuns
    /\ job' = [NoJob EXCEPT !.name = "consolidateSearchCache",
                            !.pc = "loop",
                            !.queries = buildQuerySet(getAll(SearchCache)),
                            !.started = SearchCache,
                            !.once = {r \in SearchCache : r.id \notin destroying},
                            !.runs = job.runs + 1,
                            !.created = job.created]
    /\ UNCHANGED <<SearchCache, destroying, formatting, searched>>
    /\ UNCHANGED <<Cache, Song, songCall, PlaylistEntry, plCall>>
    /\ UNCHANGED partyVars
    /\ UNCHANGED lruVars
    /\ UNCHANGED requestVars

\* consolidateCache(query), lines 207-228, for the next query of the loop:
\* the rows of the query are found; unless there is one row with songs,
\* destroy() is called on each row without await, and a new row whose songs
\* are the pushed values is saved
consolidateCache ==
    /\ job.name = "consolidateSearchCache"
    /\ job.pc = "loop"
    /\ job.queries # <<>>
    /\ LET query   == Head(job.queries)
           results == {r \in SearchCache : r.query = query}
       IN  IF alreadyConsolidated(results)
           THEN /\ job' = [job EXCEPT !.queries = Tail(job.queries), !.query = query,
                                      !.before = results, !.survivor = Null]
                /\ UNCHANGED <<SearchCache, destroying>>
           ELSE /\ destroying' = destroying \cup {r.id : r \in results}
                /\ SearchCache' = SearchCache \cup
                       {[id |-> newRecordId, query |-> query,
                         songs |-> formattedResult(results)]}
                /\ job' = [job EXCEPT !.queries = Tail(job.queries), !.query = query,
                                      !.before = results, !.survivor = newRecordId,
                                      !.created = job.created + 1]
    /\ UNCHANGED <<formatting, searched>>
    /\ UNCHANGED <<Cache, Song, songCall, PlaylistEntry, plCall>>
    /\ UNCHANGED partyVars
    /\ UNCHANGED lruVars
    /\ UNCHANGED requestVars

\* a destroy() that was not awaited takes effect in the store
destroyLanded(id) ==
    /\ id \in destroying
    /\ destroying' = destroying \ {id}
    /\ SearchCache' = {r \in SearchCache : r.id # id}
    /\ UNCHANGED <<formatting, job, searched>>
    /\ UNCHANGED <<Cache, Song, songCall, PlaylistEntry, plCall>>
    /\ UNCHANGED partyVars
    /\ UNCHANGED lruVars
    /\ UNCHANGED requestVars

\* consolidateSearchCache, lines 93-101: the loop is over, the job returns
consolidateSearchCacheDone ==
    /\ job.name = "consolidateSearchCache"
    /\ job.pc = "loop"
    /\ job.queries = <<>>
    /\ job' = [job EXCEPT !.pc = "done"]
    /\ UNCHANGED <<SearchCache, destroying, formatting, searched>>
    /\ UNCHANGED <<Cache, Song, songCall, PlaylistEntry, plCall>>
    /\ UNCHANGED partyVars
    /\ UNCHANGED lruVars
    /\ UNCHANGED requestVars

\* process start over a store that holds search-cache records
InitSearch ==
    /\ LRUIdle
    /\ Cache = Registry
    /\ Song = SongRows
    /\ songCall = [c \in CallIds |-> NoSongCall]
    /\ PlaylistEntry = {}
    /\ plCall = [c \in CallIds |-> NoPlCall]
    /\ PartyIdle
    /\ RequestIdle
    /\ SearchCache \in SearchStores
    /\ destroying = {}
    /\ formatting = {}
    /\ job = NoJob
    /\ searched = EmptyMap

NextScan ==
    \/ getAllCall
    \/ getAllChunk

\* one getAll call over a store that no other call changes
SpecScan == InitSearch /\ [][NextScan]_vars

\* the store answers every query of the call
SpecScanFair == SpecScan /\ WF_vars(getAllChunk)

NextConsolidate ==
    \/ consolidateSearchCacheStart
    \/ consolidateCache
    \/ \E id \in destroying : destroyLanded(id)
    \/ consolidateSearchCacheDone

\* runs of the consolidateSearchCache job with no search request beside them
SpecConsolidate == InitSearch /\ [][NextConsolidate]_vars

(***************************************************************************)
(* The search-cache jobs (spotifyAPI.js): buildSearchCache                 *)
(***************************************************************************)
\* Util.searchSpotify(token, query, 50): the tracks Spotify answers with
searchSpotify(query) == IF Len(query) = 1 THEN <<"s1", "s2">> ELSE <<"s1">>

\* a visited-set that remembers nothing
has_Never(cachedQueries, query) == FALSE

\* cachedQueries.has(query)
has(cachedQueries, query) == \E i \in 1..Len(cachedQueries) : cachedQueries[i] = query

\* a slice that leaves the query as it is
slice_Keep(query) == query

\* query.slice(0, -1)
slice(query) == SubSeq(query, 1, Len(query) - 1)

\* the count of remote searches with one more for the query
countSearch(counts, query) ==
    [q \in DOMAIN counts \cup {query} |->
        IF q \in DOMAIN counts
        THEN (IF q = query THEN counts[q] + 1 ELSE counts[q])
        ELSE 1]

\* buildSearchCache, lines 60-70: the job starts, reads all rows, collects
\* their queries and creates the visited-set of the run
buildSearchCacheStart ==
    /\ job.pc \in {"idle", "done"}
    /\ job.runs < MaxRuns
    /\ job' = [NoJob EXCEPT !.name = "buildSearchCache",
                            !.pc = "loop",
                            !.queries = buildQuerySet(getAll(SearchCache)),
                            !.started = SearchCache,
                            !.runs = job.runs + 1,
                            !.created = job.created]
    /\ searched' = EmptyMap
    /\ UNCHANGED <<SearchCache, destroying, formatting>>
    /\ UNCHANGED <<Cache, Song, songCall, PlaylistEntry, plCall>>
    /\ UNCHANGED partyVars
    /\ UNCHANGED lruVars
    /\ UNCHANGED requestVars

\* buildSearchCache, lines 72-75: buildCache is called for the next query
buildCacheCall ==
    /\ job.name = "buildSearchCache"
    /\ job.pc = "loop"
    /\ job.queries # <<>>
    /\ job' = [job EXCEPT !.pc = "prefix", !.query = Head(job.queries),
                          !.queries = Tail(job.queries),
                          !.seed = Head(job.queries), !.iterations = 0]
    /\ UNCHANGED <<SearchCache, destroying, formatting, searched>>
    /\ UNCHANGED <<Cache, Song, songCall, PlaylistEntry, plCall>>
    /\ UNCHANGED partyVars
    /\ UNCHANGED lruVars
    /\ UNCHANGED requestVars

\* buildCache, lines 198-204: one round of the loop. A query the run has
\* visited is skipped; otherwise it is added to the visited-set, the remote
\* search is awaited and formatSearchResult is called without await. Either
\* way the query loses its last character; the empty query ends the loop.
buildCache ==
    /\ job.name = "buildSearchCache"
    /\ job.pc = "prefix"
    /\ IF Len(job.query) = 0
       THEN /\ job' = [job EXCEPT !.pc = "loop"]
            /\ UNCHANGED <<formatting, searched>>
       ELSE IF has(job.cachedQueries, job.query)
       THEN /\ job' = [job EXCEPT !.query = slice(job.query),
                                  !.iterations = job.iterations + 1]
            /\ UNCHANGED <<formatting, searched>>
       ELSE /\ job' = [job EXCEPT !.cachedQueries = Append(job.cachedQueries, job.query),
                                  !.query = slice(job.query),
                                  !.iterations = job.iterations + 1]
            /\ searched' = countSearch(searched, job.query)
            /\ formatting' = formatting \cup {job.query}
    /\ UNCHANGED <<SearchCache, destroying>>
    /\ UNCHANGED <<Cache, Song, songCall, PlaylistEntry, plCall>>
    /\ UNCHANGED partyVars
    /\ UNCHANGED lruVars
    /\ UNCHANGED requestVars

RECURSIVE saveSongs(_, _, _)
\* formatSearchResult, lines 220-232: saveSong for each track in turn; the
\* registry and the Song rows left and the rows returned
saveSongs(C, rows, tracks) ==
    IF tracks = <<>>
    THEN [Cache |-> C, Song |-> rows, songs |-> <<>>]
    ELSE LET saved == saveSong(C, rows, Head(tracks), titleOf[Head(tracks)])
             rest  == saveSongs(saved.Cache, saved.Song, Tail(tracks))
         IN  [Cache |-> rest.Cache, Song |-> rest.Song,
              songs |-> <<saved.id>> \o rest.songs]

\* formatSearchResult, lines 219-245, called without await by buildCache,
\* runs to its end: the songs are saved, and a SearchCache row is saved for
\* the query unless it has one
formatSearchResult(query) ==
    /\ query \in formatting
    /\ formatting' = formatting \ {query}
    /\ LET saved == saveSongs(Cache, Song, searchSpotify(query))
       IN  /\ Cache' = saved.Cache
           /\ Song' = saved.Song
           /\ IF \E r \in SearchCache : r.query = query
              THEN UNCHANGED <<SearchCache, job>>
              ELSE /\ SearchCache' = SearchCache \cup
                          {[id |-> newRecordId, query |-> query, songs |-> saved.songs]}
                   /\ job' = [job EXCEPT !.created = job.created + 1]
    /\ UNCHANGED <<destroying, searched>>
    /\ UNCHANGED <<songCall, PlaylistEntry, plCall>>
    /\ UNCHANGED partyVars
    /\ UNCHANGED lruVars
    /\ UNCHANGED requestVars

\* buildSearchCache, lines 78-80: the job returns Array.from(cachedQueries)
buildSearchCacheDone ==
    /\ job.name = "buildSearchCache"
    /\ job.pc = "loop"
    /\ job.queries = <<>>
    /\ job' = [job EXCEPT !.pc = "done", !.result = job.cachedQueries]
    /\ UNCHANGED <<SearchCache, destroying, formatting, searched>>
    /\ UNCHANGED <<Cache, Song, songCall, PlaylistEntry, plCall>>
    /\ UNCHANGED partyVars
    /\ UNCHANGED lruVars
    /\ UNCHANGED requestVars

NextBuild ==
    \/ buildSearchCacheStart
    \/ buildCacheCall
    \/ buildCache
    \/ \E query \in formatting : formatSearchResult(query)
    \/ buildSearchCacheDone

\* runs of the buildSearchCache job with no search request beside them
SpecBuild == InitSearch /\ [][NextBuild]_vars

\* the same runs where the event loop goes on with a buildCache that can
\* take its next round: the awaited remote search answers
SpecBuildFair == SpecBuild /\ WF_vars(buildCache)

(***************************************************************************)
(* createParty (partyFunctions.js 18-39) and generateJoinCode              *)
(* (utilFunctions.js 328-340). A call suspends at every store request;     *)
(* the calls of other users run while it is suspended.                     *)
(***************************************************************************)
\* the retry limit of generateJoinCode
MaxRetries == 2

\* the Party rows a store may hold at process start: no two with one joinCode
JoinStores ==
    {rows \in UNION {[ids -> JoinCodes] : ids \in SUBSET PartyIds} :
        \A p, q \in DOMAIN rows : rows[p] = rows[q] => p = q}

\* the objectId the store gives the Party row a call of the user saves
newPartyId == [u \in Users |-> IF u = "u1" THEN "p3" ELSE "p4"]

\* a loop condition that never ends the loop
retry_Always(i) == TRUE

\* generateJoinCode, line 331: i < 100
retry(i) == i < MaxRetries

\* partyQuery.first(): is there a Party row with the joinCode
partyQueryFirst(rows, code) == \E p \in DOMAIN rows : rows[p] = code

\* createParty, lines 19-24 and 29 up to the first query of generateJoinCode
createPartyCall(user) ==
    /\ partyCall[user].pc \in {"idle", "done", "failed"}
    /\ partyCall' =
          [partyCall EXCEPT ![user] =
              IF User[user] # NoKey
              THEN [NoPartyCall EXCEPT !.pc = "failed",
                                       !.error = "Current user already has a party!"]
              ELSE [NoPartyCall EXCEPT !.pc = "generate"]]
    /\ UNCHANGED <<User, joinCode, likeCall, cleaning, searchOp, scan, entryCall>>
    /\ UNCHANGED <<Cache, Song, songCall, PlaylistEntry, plCall>>
    /\ UNCHANGED partyVars
    /\ UNCHANGED searchVars
    /\ UNCHANGED lruVars

\* generateJoinCode, one round of the loop: the store answers the query for
\* the candidate; the call returns the candidate, draws the next one, or throws
generateJoinCode(user, code) ==
    LET call   == partyCall[user]
        asked  == [call EXCEPT !.candidate = code, !.checks = @ + 1]
        next   == [asked EXCEPT !.i = @ + 1, !.collisions = @ + 1]
    IN  /\ call.pc = "generate"
        /\ partyCall' =
              [partyCall EXCEPT ![user] =
                  IF ~partyQueryFirst(joinCode, code)
                  THEN [asked EXCEPT !.pc = "save", !.joinCode = code]
                  ELSE IF retry(next.i)
                       THEN next
                       ELSE [next EXCEPT
                               !.pc = "failed",
                               !.error = "Could not generate a unique join code!"]]
        /\ UNCHANGED <<User, joinCode, likeCall, cleaning, searchOp, scan, entryCall>>
        /\ UNCHANGED <<Cache, Song, songCall, PlaylistEntry, plCall>>
        /\ UNCHANGED partyVars
        /\ UNCHANGED searchVars
        /\ UNCHANGED lruVars

\* createParty, line 32: party.save() takes effect
createPartySaved(user) ==
    LET call == partyCall[user]
        id   == newPartyId[user]
    IN  /\ call.pc = "save"
        /\ joinCode' =
              [p \in DOMAIN joinCode \cup {id} |->
                  IF p = id THEN call.joinCode ELSE joinCode[p]]
        /\ partyCall' = [partyCall EXCEPT ![user].pc = "saveUser", ![user].party = id]
        /\ UNCHANGED <<User, likeCall, cleaning, searchOp, scan, entryCall>>
        /\ UNCHANGED <<Cache, Song, songCall, PlaylistEntry, plCall>>
        /\ UNCHANGED partyVars
        /\ UNCHANGED searchVars
        /\ UNCHANGED lruVars

\* createParty, lines 34-37: user.save() takes effect and the party is returned
createPartyUserSaved(user) ==
    LET call == partyCall[user]
    IN  /\ call.pc = "saveUser"
        /\ User' = [User EXCEPT ![user] = call.party]
        /\ partyCall' = [partyCall EXCEPT ![user].pc = "done"]
        /\ UNCHANGED <<joinCode, likeCall, cleaning, searchOp, scan, entryCall>>
        /\ UNCHANGED <<Cache, Song, songCall, PlaylistEntry, plCall>>
        /\ UNCHANGED partyVars
        /\ UNCHANGED searchVars
        /\ UNCHANGED lruVars

\* users without a party and a store of Party rows
InitJoin ==
    /\ LRUIdle
    /\ Cache = Registry
    /\ Song = {}
    /\ songCall = [c \in CallIds |-> NoSongCall]
    /\ PlaylistEntry = {}
    /\ plCall = [c \in CallIds |-> NoPlCall]
    /\ PartyIdle
    /\ SearchIdle
    /\ User = [u \in Users |-> NoKey]
    /\ joinCode \in JoinStores
    /\ partyCall = [u \in Users |-> NoPartyCall]
    /\ likeCall = [c \in LikeCallIds |-> NoLikeCall]
    /\ cleaning = {}
    /\ searchOp = NoSearchOp
    /\ scan = NoScan
    /\ entryCall = [c \in EntryCallIds |-> NoEntryCall]

NextJoin ==
    \/ \E user \in Users : createPartyCall(user)
    \/ \E user \in Users, code \in JoinCodes : generateJoinCode(user, code)
    \/ \E user \in Users : createPartySaved(user)
    \/ \E user \in Users : createPartyUserSaved(user)

\* the createParty calls of the users, interleaved at their store requests
SpecJoin == InitJoin /\ [][NextJoin]_vars

\* the store answers every query of generateJoinCode
SpecJoinFair ==
    SpecJoin /\ \A user \in Users : WF_vars(\E code \in JoinCodes : generateJoinCode(user, code))

(***************************************************************************)
(* likeSong (playlistFunctions.js 182-204) as interleaved calls: a call     *)
(* suspends at every store request and other calls run meanwhile           *)
(***************************************************************************)
\* likeSong, lines 183-188: getPartyFromUser, then the store answers
\* getEntryById with the row or rejects
likeSongCall(c, user, entryId) ==
    /\ likeCall[c].pc = "idle"
    /\ Cache' = IF User[user] = NoKey THEN Cache ELSE getPartyFromUser(Cache, User[user])
    /\ IF getEntryById(PlaylistEntry, entryId) = {}
       THEN likeCall' = [likeCall EXCEPT ![c] =
                            [NoLikeCall EXCEPT !.pc = "failed", !.name = "likeSong",
                                               !.user = user, !.party = User[user],
                                               !.error = "Object not found."]]
       ELSE \E entry \in getEntryById(PlaylistEntry, entryId) :
               likeCall' = [likeCall EXCEPT ![c] =
                               [NoLikeCall EXCEPT !.pc = "check", !.name = "likeSong",
                                                  !.user = user, !.party = User[user],
                                                  !.entryId = entryId, !.entry = entry]]
    /\ UNCHANGED <<Song, songCall, PlaylistEntry, plCall>>
    /\ UNCHANGED <<User, joinCode, partyCall, cleaning, searchOp, scan, entryCall>>
    /\ UNCHANGED partyVars
    /\ UNCHANGED searchVars
    /\ UNCHANGED lruVars

\* likeSong, line 190: the store answers the query of isEntryLikedByUser
likeSongChecked(c) ==
    LET call == likeCall[c]
    IN  /\ call.pc = "check"
        /\ call.name = "likeSong"
        /\ likeCall' =
              [likeCall EXCEPT ![c] =
                  IF getLike(Like, call.entryId, call.user) # {}
                  THEN [call EXCEPT !.pc = "failed",
                                    !.error = "User has already liked the song!"]
                  ELSE [call EXCEPT !.pc = "saveLike"]]
        /\ UNCHANGED <<Cache, Song, songCall, PlaylistEntry, plCall>>
        /\ UNCHANGED <<User, joinCode, partyCall, cleaning, searchOp, scan, entryCall>>
        /\ UNCHANGED partyVars
        /\ UNCHANGED searchVars
        /\ UNCHANGED lruVars

\* likeSong, lines 191-194: like.save() takes effect
likeSongLikeSaved(c) ==
    LET call == likeCall[c]
    IN  /\ call.pc = "saveLike"
        /\ call.name = "likeSong"
        /\ Like' = Like \cup {[id |-> newRowId(Like), entry |-> call.entryId,
                               user |-> call.user]}
        /\ likeCall' = [likeCall EXCEPT ![c].pc = "saveEntry"]
        /\ UNCHANGED <<Cache, Song, songCall, PlaylistEntry, plCall>>
        /\ UNCHANGED <<User, joinCode, partyCall, cleaning, searchOp, scan, entryCall>>
        /\ UNCHANGED <<Party, plOp, now>>
        /\ UNCHANGED searchVars
        /\ UNCHANGED lruVars

\* likeSong, lines 196-200: entry.save() writes numLikes + 1 of the entry
\* object the call holds; updateEntryScore and indicatePlaylistUpdated end
\* the call
likeSongEntrySaved(c) ==
    LET call  == likeCall[c]
        party == call.party
        liked == [call.entry EXCEPT !.numLikes = @ + 1]
        op    == StartOp("likeSong", call.user, party, call.entryId, call.entry.song)
    IN  /\ call.pc = "saveEntry"
        /\ call.name = "likeSong"
        /\ now' = now + 1
        /\ PlaylistEntry' =
              {IF r.id = call.entryId THEN [r EXCEPT !.numLikes = liked.numLikes] ELSE r
                  : r \in PlaylistEntry}
        /\ IF getEntryById(PlaylistEntry, call.entryId) = {}
           THEN \* the row was destroyed meanwhile: entry.save() rejects
                /\ plOp' = [op EXCEPT !.error = "Object not found."]
                /\ UNCHANGED <<Cache, Party>>
           ELSE IF party = NoKey
           THEN \* indicatePlaylistUpdated(null)
                /\ plOp' = [op EXCEPT !.object = updateEntryScore(liked),
                                      !.error = "TypeError"]
                /\ UNCHANGED <<Cache, Party>>
           ELSE indicatePlaylistUpdated(Cache, party,
                    [op EXCEPT !.object = updateEntryScore(liked)],
                    Party[party].currPlaying, Party[party].currPlaying)
        /\ likeCall' =
              [likeCall EXCEPT ![c] =
                  IF plOp'.error = NoKey
                  THEN [call EXCEPT !.pc = "done", !.entry = updateEntryScore(liked)]
                  ELSE [call EXCEPT !.pc = "failed", !.entry = updateEntryScore(liked),
                                    !.error = plOp'.error]]
        /\ UNCHANGED <<Song, songCall, plCall, Like>>
        /\ UNCHANGED <<User, joinCode, partyCall, cleaning, searchOp, scan, entryCall>>
        /\ UNCHANGED searchVars
        /\ UNCHANGED lruVars

NextLike ==
    \/ \E c \in LikeCallIds, user \in Users, entryId \in EntryIds(PlaylistEntry) :
          likeSongCall(c, user, entryId)
    \/ \E c \in LikeCallIds : likeSongChecked(c)
    \/ \E c \in LikeCallIds : likeSongLikeSaved(c)
    \/ \E c \in LikeCallIds : likeSongEntrySaved(c)

\* likeSong calls interleaved at their store requests, over the registry of
\* cache.js
SpecLike == InitOps /\ [][NextLike]_vars

\* unlikeSong, lines 215-220: getPartyFromUser, then the store answers
\* getEntryById with the row or rejects
unlikeSongCall(c, user, entryId) ==
    /\ likeCall[c].pc = "idle"
    /\ Cache' = IF User[user] = NoKey THEN Cache ELSE getPartyFromUser(Cache, User[user])
    /\ IF getEntryById(PlaylistEntry, entryId) = {}
       THEN likeCall' = [likeCall EXCEPT ![c] =
                            [NoLikeCall EXCEPT !.pc = "failed", !.name = "unlikeSong",
                                               !.user = user, !.party = User[user],
                                               !.error = "Object not found."]]
       ELSE \E entry \in getEntryById(PlaylistEntry, entryId) :
               likeCall' = [likeCall EXCEPT ![c] =
                               [NoLikeCall EXCEPT !.pc = "check", !.name = "unlikeSong",
                                                  !.user = user, !.party = User[user],
                                                  !.entryId = entryId, !.entry = entry]]
    /\ UNCHANGED <<Song, songCall, PlaylistEntry, plCall>>
    /\ UNCHANGED <<User, joinCode, partyCall, cleaning, searchOp, scan, entryCall>>
    /\ UNCHANGED partyVars
    /\ UNCHANGED searchVars
    /\ UNCHANGED lruVars

\* unlikeSong, lines 222-225: the store answers likeQuery.first() of getLike
\* with the Like row of the user that was saved first, or with none
unlikeSongChecked(c) ==
    LET call  == likeCall[c]
        likes == getLike(Like, call.entryId, call.user)
    IN  /\ call.pc = "check"
        /\ call.name = "unlikeSong"
        /\ likeCall' =
              [likeCall EXCEPT ![c] =
                  IF likes = {}
                  THEN [call EXCEPT !.pc = "failed",
                                    !.error = "User has not liked the song!"]
                  ELSE [call EXCEPT !.pc = "destroyLike",
                                    !.like = (CHOOSE l \in likes :
                                                 \A m \in likes : l.id <= m.id).id]]
        /\ UNCHANGED <<Cache, Song, songCall, PlaylistEntry, plCall>>
        /\ UNCHANGED <<User, joinCode, partyCall, cleaning, searchOp, scan, entryCall>>
        /\ UNCHANGED partyVars
        /\ UNCHANGED searchVars
        /\ UNCHANGED lruVars

\* unlikeSong, line 227: like.destroy() takes effect, or rejects when the row
\* was destroyed meanwhile
unlikeSongLikeDestroyed(c) ==
    LET call == likeCall[c]
    IN  /\ call.pc = "destroyLike"
        /\ Like' = {l \in Like : l.id # call.like}
        /\ likeCall' =
              [likeCall EXCEPT ![c] =
                  IF \E l \in Like : l.id = call.like
                  THEN [call EXCEPT !.pc = "saveEntry"]
                  ELSE [call EXCEPT !.pc = "failed", !.error = "Object not found."]]
        /\ UNCHANGED <<Cache, Song, songCall, PlaylistEntry, plCall>>
        /\ UNCHANGED <<User, joinCode, partyCall, cleaning, searchOp, scan, entryCall>>
        /\ UNCHANGED <<Party, plOp, now>>
        /\ UNCHANGED searchVars
        /\ UNCHANGED lruVars

\* unlikeSong, lines 228-231: entry.save() writes numLikes - 1 of the entry
\* object the call holds; updateEntryScore and indicatePlaylistUpdated end
\* the call
unlikeSongEntrySaved(c) ==
    LET call    == likeCall[c]
        party   == call.party
        unliked == [call.entry EXCEPT !.numLikes = @ - 1]
        op      == StartOp("unlikeSong", call.user, party, call.entryId, call.entry.song)
    IN  /\ call.pc = "saveEntry"
        /\ call.name = "unlikeSong"
        /\ now' = now + 1
        /\ PlaylistEntry' =
              {IF r.id = call.entryId THEN [r EXCEPT !.numLikes = unliked.numLikes] ELSE r
                  : r \in PlaylistEntry}
        /\ IF getEntryById(PlaylistEntry, call.entryId) = {}
           THEN /\ plOp' = [op EXCEPT !.error = "Object not found."]
                /\ UNCHANGED <<Cache, Party>>
           ELSE IF party = NoKey
           THEN /\ plOp' = [op EXCEPT !.object = updateEntryScore(unliked),
                                      !.error = "TypeError"]
                /\ UNCHANGED <<Cache, Party>>
           ELSE indicatePlaylistUpdated(Cache, party,
                    [op EXCEPT !.object = updateEntryScore(unliked)],
                    Party[party].currPlaying, Party[party].currPlaying)
        /\ likeCall' =
              [likeCall EXCEPT ![c] =
                  IF plOp'.error = NoKey
                  THEN [call EXCEPT !.pc = "done", !.entry = updateEntryScore(unliked)]
                  ELSE [call EXCEPT !.pc = "failed", !.entry = updateEntryScore(unliked),
                                    !.error = plOp'.error]]
        /\ UNCHANGED <<Song, songCall, plCall, Like>>
        /\ UNCHANGED <<User, joinCode, partyCall, cleaning, searchOp, scan, entryCall>>
        /\ UNCHANGED searchVars
        /\ UNCHANGED lruVars

NextLikes ==
    \/ NextLike
    \/ \E c \in LikeCallIds, user \in Users, entryId \in EntryIds(PlaylistEntry) :
          unlikeSongCall(c, user, entryId)
    \/ \E c \in LikeCallIds : unlikeSongChecked(c)
    \/ \E c \in LikeCallIds : unlikeSongLikeDestroyed(c)
    \/ \E c \in LikeCallIds : unlikeSongEntrySaved(c)

\* likeSong and unlikeSong calls interleaved at their store requests, over
\* the registry of cache.js
SpecLikes == InitOps /\ [][NextLikes]_vars

(***************************************************************************)
(* deleteParty and getCurrentParty (partyFunctions.js 136-162, 47-50),     *)
(* each run from its first statement to its return or throw. DOMAIN        *)
(* joinCode is the set of the persisted Party rows.                        *)
(***************************************************************************)
\* a store request of a cleanup call: the find of the party's entries
\* ("find"), the find and destroyAll of the likes of the entries found
\* ("likes"), destroyAll(entries) ("entries"), and the cleanupLikes that the
\* afterDelete trigger calls for a destroyed entry ("trigger"). `call` tells
\* the call of deleteParty from the one of the afterDelete trigger of Party.
cleanupCall(step, party, call, entries) ==
    [step |-> step, party |-> party, call |-> call, entries |-> entries]

\* the users' parties at process start
UserRows == [Users -> PartyIds \cup {NoKey}]

\* getCurrentParty: the party of the user, from the party cache or the store
getCurrentParty(user) ==
    /\ now < MaxOps
    /\ now' = now + 1
    /\ LET party == User[user]
           op    == StartOp("getCurrentParty", user, party, Null, NoKey)
       IN  IF party = NoKey
           THEN Throw(Cache, op, NoKey)
           ELSE Throw(getPartyFromUser(Cache, party), op, NoKey)
    /\ UNCHANGED <<songCall, plCall>>
    /\ UNCHANGED requestVars
    /\ UNCHANGED searchVars
    /\ UNCHANGED lruVars

\* deleteParty, lines 136-162: the members leave the party,
\* cleanupPlaylistEntries is called and not awaited, the row is destroyed
\* and the afterDelete trigger of Party calls cleanupPlaylistEntries again.
\* No statement takes the party's key out of a cache.
deleteParty(user) ==
    /\ now < MaxOps
    /\ now' = now + 1
    /\ LET party == User[user]
           op    == StartOp("deleteParty", user, party, Null, NoKey)
       IN  IF party = NoKey
           THEN /\ Throw(Cache, op, "TypeError")
                /\ UNCHANGED <<User, joinCode, cleaning>>
           ELSE IF ~isUserAdmin(user, party)
           THEN /\ Throw(getPartyFromUser(Cache, party), op,
                         "User is not the admin of their party!")
                /\ UNCHANGED <<User, joinCode, cleaning>>
           ELSE /\ Cache' = getPartyFromUser(Cache, party)
                /\ User' = [u \in Users |-> IF User[u] = party THEN NoKey ELSE User[u]]
                /\ cleaning' = cleaning \cup
                       {cleanupCall("find", party, call, {})
                           : call \in {"deleteParty", "afterDelete"}}
                /\ joinCode' = [p \in DOMAIN joinCode \ {party} |-> joinCode[p]]
                /\ plOp' = op
                /\ UNCHANGED <<Song, PlaylistEntry, Party, Like>>
    /\ UNCHANGED <<songCall, plCall, partyCall, likeCall, searchOp, scan, entryCall>>
    /\ UNCHANGED searchVars
    /\ UNCHANGED lruVars

\* cleanupPlaylistEntries, lines 363-366: the store answers the find of the
\* party's entries; lines 367-372: the find of the likes of these entries and
\* destroyAll(entries) are sent
cleanupPlaylistEntries(c) ==
    LET entries == {r.id : r \in {e \in PlaylistEntry : e.party = c.party}}
    IN  /\ c \in cleaning
        /\ c.step = "find"
        /\ cleaning' = (cleaning \ {c}) \cup
               {cleanupCall("likes", c.party, c.call, entries),
                cleanupCall("entries", c.party, c.call, entries)}
        /\ UNCHANGED <<Cache, Song, songCall, PlaylistEntry, plCall>>
        /\ UNCHANGED <<User, joinCode, partyCall, likeCall, searchOp, scan, entryCall>>
        /\ UNCHANGED partyVars
        /\ UNCHANGED searchVars
        /\ UNCHANGED lruVars

\* cleanupPlaylistEntries, lines 367-371, and cleanupLikes, lines 376-382:
\* the store answers the find of the likes and destroyAll(likes) takes effect
cleanupLikesFound(c) ==
    /\ c \in cleaning
    /\ c.step \in {"likes", "trigger"}
    /\ cleaning' = cleaning \ {c}
    /\ Like' = {l \in Like : l.entry \notin c.entries}
    /\ UNCHANGED <<Cache, Song, songCall, PlaylistEntry, plCall>>
    /\ UNCHANGED <<User, joinCode, partyCall, likeCall, searchOp, scan, entryCall>>
    /\ UNCHANGED <<Party, plOp, now>>
    /\ UNCHANGED searchVars
    /\ UNCHANGED lruVars

\* cleanupPlaylistEntries, line 372: destroyAll(entries) takes effect, and
\* the afterDelete trigger of PlaylistEntry calls cleanupLikes for every
\* entry destroyed
cleanupEntriesDestroyed(c) ==
    LET destroyed == {r \in PlaylistEntry : r.id \in c.entries}
    IN  /\ c \in cleaning
        /\ c.step = "entries"
        /\ PlaylistEntry' = PlaylistEntry \ destroyed
        /\ cleaning' = (cleaning \ {c}) \cup
               {cleanupCall("trigger", c.party, c.call, {r.id}) : r \in destroyed}
        /\ UNCHANGED <<Cache, Song, songCall, plCall>>
        /\ UNCHANGED <<User, joinCode, partyCall, likeCall, searchOp, scan, entryCall>>
        /\ UNCHANGED partyVars
        /\ UNCHANGED searchVars
        /\ UNCHANGED lruVars

\* the requests of the cleanup calls that the store has not answered yet
cleanup ==
    \/ \E c \in cleaning : cleanupPlaylistEntries(c)
    \/ \E c \in cleaning : cleanupLikesFound(c)
    \/ \E c \in cleaning : cleanupEntriesDestroyed(c)

InitParty ==
    /\ LRUIdle
    /\ Cache = Registry
    /\ Song = {}
    /\ songCall = [c \in CallIds |-> NoSongCall]
    /\ PlaylistEntry \in StoredEntries
    /\ plCall = [c \in CallIds |-> NoPlCall]
    /\ PartyIdle
    /\ SearchIdle
    /\ User \in UserRows
    /\ joinCode = JoinCodeRows
    /\ partyCall = [u \in Users |-> NoPartyCall]
    /\ likeCall = [c \in LikeCallIds |-> NoLikeCall]
    /\ cleaning = {}
    /\ searchOp = NoSearchOp
    /\ scan = NoScan
    /\ entryCall = [c \in EntryCallIds |-> NoEntryCall]

NextParty ==
    \/ \E user \in Users : getCurrentParty(user)
    \/ \E user \in Users : deleteParty(user)
    \/ cleanup

\* the party operations over the registry of cache.js
SpecParty == InitParty /\ [][NextParty]_vars

\* the users' parties when the admin of p1 is in that party
AdminUserRows == {rows \in UserRows : rows["u1"] = "p1"}

\* one entry in each party, liked or not
CleanupEntries ==
    {[id |-> 1, party |-> "p1", song |-> "s1", numLikes |-> 0, score |-> Unset],
     [id |-> 2, party |-> "p2", song |-> "s2", numLikes |-> 1, score |-> 1]}

\* the Like rows of these entries
CleanupLikes == {[id |-> 1, entry |-> 2, user |-> "u2"]}

InitCleanup ==
    /\ LRUIdle
    /\ Cache = Registry
    /\ Song = {}
    /\ songCall = [c \in CallIds |-> NoSongCall]
    /\ PlaylistEntry = CleanupEntries
    /\ plCall = [c \in CallIds |-> NoPlCall]
    /\ Party = PartyRows
    /\ Like = CleanupLikes
    /\ plOp = NoPlOp
    /\ now = 0
    /\ SearchIdle
    /\ User \in AdminUserRows
    /\ joinCode = JoinCodeRows
    /\ partyCall = [u \in Users |-> NoPartyCall]
    /\ likeCall = [c \in LikeCallIds |-> NoLikeCall]
    /\ cleaning = {}
    /\ searchOp = NoSearchOp
    /\ scan = NoScan
    /\ entryCall = [c \in EntryCallIds |-> NoEntryCall]

\* the likeSong call that runs while the party is deleted
CleanupCallIds == {1}

\* a likeSong call that the store has not answered yet
likeSongAnswered ==
    \/ \E c \in CleanupCallIds : likeSongChecked(c)
    \/ \E c \in CleanupCallIds : likeSongLikeSaved(c)
    \/ \E c \in CleanupCallIds : likeSongEntrySaved(c)

NextCleanup ==
    \/ \E user \in Users : deleteParty(user)
    \/ cleanup
    \/ \E c \in CleanupCallIds, user \in Users, entryId \in EntryIds(PlaylistEntry) :
          likeSongCall(c, user, entryId)
    \/ likeSongAnswered

\* deleteParty and its cleanup, with likeSong calls in flight
SpecCleanup == InitCleanup /\ [][NextCleanup]_vars

\* the store answers every request of the cleanup and of the likeSong calls
SpecCleanupFair == SpecCleanup /\ WF_vars(cleanup) /\ WF_vars(likeSongAnswered)

\* deleteParty and its cleanup with no other call in flight
NextCleanupAlone ==
    \/ \E user \in Users : deleteParty(user)
    \/ cleanup

SpecCleanupAlone == InitCleanup /\ [][NextCleanupAlone]_vars /\ WF_vars(cleanup)

(***************************************************************************)
(* The admin-only operations: setCurrentlyPlayingSong (playlistFunctions.js *)
(* 127-144), updatePartyLocation and savePartySettings (partyFunctions.js  *)
(* 164-174, 197-227), with removeSong, getNextSong,                        *)
(* setCurrentlyPlayingEntry and deleteParty                                *)
(***************************************************************************)
\* request.params.location
Locations == {"l1"}

SettingNames == {"locationEnabled", "name", "userLimit", "songLimit", "explicitEnabled"}

\* request.params of savePartySettings: the parameters that are not null
\* and their values
SettingsParams ==
    {[given  |-> g,
      values |-> [locationEnabled |-> FALSE, name |-> "n1", userLimit |-> 5,
                  songLimit |-> 3, explicitEnabled |-> FALSE]]
        : g \in {{}, {"name"}, SettingNames}}

\* getSongById, utilFunctions.js 71-81: the song of the song cache, else the
\* first Song row with the spotifyId, else null
getSongById(C, rows, spotifyId) ==
    IF spotifyId \in DOMAIN C.songCache.map
    THEN [Cache |-> [C EXCEPT !.songCache = get(@, spotifyId)], found |-> TRUE]
    ELSE [Cache |-> [C EXCEPT !.songCache = get(@, spotifyId)],
          found |-> songQuery(rows, spotifyId) # {}]

\* setCurrentlyPlayingSong: the party is saved with the song as currPlaying,
\* then indicatePlaylistUpdated
setCurrentlyPlayingSong(user, spotifyId) ==
    /\ now < MaxOps
    /\ now' = now + 1
    /\ LET party == User[user]
           op    == StartOp("setCurrentlyPlayingSong", user, party, Null, spotifyId)
           C1    == getPartyFromUser(Cache, party)
           song  == getSongById(C1, Song, spotifyId)
       IN  IF party = NoKey
           THEN Throw(Cache, op, "TypeError")
           ELSE IF ~isUserAdmin(user, party)
           THEN Throw(C1, op, "User is not the admin of their party!")
           ELSE IF ~song.found
           THEN Throw(song.Cache, op, "That song does not exist")
           ELSE /\ UNCHANGED <<Song, PlaylistEntry, Like>>
                /\ indicatePlaylistUpdated(song.Cache, party, op, spotifyId, spotifyId)
    /\ UNCHANGED <<songCall, plCall>>
    /\ UNCHANGED lruVars
    /\ UNCHANGED requestVars
    /\ UNCHANGED searchVars

\* updatePartyLocation: the party is saved with the location
updatePartyLocation(user, location) ==
    /\ now < MaxOps
    /\ now' = now + 1
    /\ LET party == User[user]
           op    == StartOp("updatePartyLocation", user, party, Null, NoKey)
           C1    == getPartyFromUser(Cache, party)
       IN  IF party = NoKey
           THEN Throw(Cache, op, "TypeError")
           ELSE IF ~isUserAdmin(user, party)
           THEN Throw(C1, op, "User is not the admin of their party!")
           ELSE /\ Cache' = C1
                /\ Party' = [Party EXCEPT ![party].location = location]
                /\ plOp' = op
                /\ UNCHANGED <<Song, PlaylistEntry, Like>>
    /\ UNCHANGED <<songCall, plCall>>
    /\ UNCHANGED lruVars
    /\ UNCHANGED requestVars
    /\ UNCHANGED searchVars

\* savePartySettings: every setting whose parameter is not null is set, and
\* the party is saved
savePartySettings(user, params) ==
    /\ now < MaxOps
    /\ now' = now + 1
    /\ LET party == User[user]
           op    == StartOp("savePartySettings", user, party, Null, NoKey)
           C1    == getPartyFromUser(Cache, party)
       IN  IF party = NoKey
           THEN Throw(Cache, op, "TypeError")
           ELSE IF ~isUserAdmin(user, party)
           THEN Throw(C1, op, "User is not the admin of their party!")
           ELSE /\ Cache' = C1
                /\ Party' = [Party EXCEPT ![party].settings =
                                [k \in SettingNames |->
                                    IF k \in params.given THEN params.values[k] ELSE @[k]]]
                /\ plOp' = op
                /\ UNCHANGED <<Song, PlaylistEntry, Like>>
    /\ UNCHANGED <<songCall, plCall>>
    /\ UNCHANGED lruVars
    /\ UNCHANGED requestVars
    /\ UNCHANGED searchVars

\* users in a party of theirs, in one of another admin, or in none
InitAdmin ==
    /\ LRUIdle
    /\ Cache = Registry
    /\ Song = SongRows
    /\ songCall = [c \in CallIds |-> NoSongCall]
    /\ PlaylistEntry \in StoredEntries
    /\ plCall = [c \in CallIds |-> NoPlCall]
    /\ PartyIdle
    /\ SearchIdle
    /\ User \in AdminUserRows
    /\ joinCode = JoinCodeRows
    /\ partyCall = [u \in Users |-> NoPartyCall]
    /\ likeCall = [c \in LikeCallIds |-> NoLikeCall]
    /\ cleaning = {}
    /\ searchOp = NoSearchOp
    /\ scan = NoScan
    /\ entryCall = [c \in EntryCallIds |-> NoEntryCall]

NextAdmin ==
    \/ \E user \in Users, entryId \in EntryIds(PlaylistEntry) : removeSong(user, entryId)
    \/ \E user \in Users : getNextSong(user)
    \/ \E user \in Users, spotifyId \in SpotifyIds : setCurrentlyPlayingSong(user, spotifyId)
    \/ \E user \in Users, entryId \in EntryIds(PlaylistEntry) :
          setCurrentlyPlayingEntry(user, entryId)
    \/ \E user \in Users : deleteParty(user)
    \/ \E user \in Users, params \in SettingsParams : savePartySettings(user, params)
    \/ \E user \in Users, location \in Locations : updatePartyLocation(user, location)

\* the admin-only operations over the registry of cache.js; the cleanup
\* requests that deleteParty sends stay in flight (SpecCleanup answers them)
SpecAdmin == InitAdmin /\ [][NextAdmin]_vars

(***************************************************************************)
(* The search cloud function (main.js 17-37), each request run from its    *)
(* first statement to its return before the next one starts                *)
(***************************************************************************)
\* search requests in one behaviour
MaxSearches == 4

\* a store query that finds no record
getCachedSearch_None(rows, query) == [found |-> FALSE, songs |-> <<>>]

\* getCachedSearch, lines 199-210: the songs of the first record of the
\* query, the one saved first; null when there is no record or it has no songs
getCachedSearch(rows, query) ==
    LET results == getAll({r \in rows : r.query = query})
    IN  IF results # <<>> /\ "songs" \in DOMAIN results[1]
        THEN [found |-> TRUE, songs |-> results[1].songs]
        ELSE [found |-> FALSE, songs |-> <<>>]

\* the value undefined, as a list that no songs list equals
Undefined == <<Unset>>

\* search, line 21: cache.searchCache.get(query) is neither null (no such
\* key) nor undefined
truthy(c, key) == key \in DOMAIN c.map /\ getResult(c, key) # Undefined

\* the request has returned the list
searchReturns(query, hit, found, result) ==
    searchOp' =
        [seq |-> searchOp.seq + 1, query |-> query, hit |-> hit, found |-> found,
         again |-> query \in DOMAIN searchOp.lists, result |-> result,
         lists |-> [q \in DOMAIN searchOp.lists \cup {query} |->
                       IF q = query THEN result ELSE searchOp.lists[q]],
         error |-> NoKey]

\* search, lines 17-37: the list held in memory; else the list of the
\* persisted record, put into memory; else the remote search, whose tracks
\* formatSearchResult saves as songs and as the record of the query, put
\* into memory
search(query) ==
    /\ searchOp.seq < MaxSearches
    /\ LET cachedResult == getCachedSearch(SearchCache, query)
           got          == [Cache EXCEPT !.searchCache = get(@, query)]
           saved        == saveSongs(got, Song, searchSpotify(query))
       IN  IF truthy(Cache.searchCache, query)
           THEN /\ Cache' = got
                /\ searchReturns(query, TRUE, FALSE, getResult(Cache.searchCache, query))
                /\ UNCHANGED <<Song, SearchCache, job, searched>>
           ELSE IF cachedResult.found
           THEN /\ Cache' = [got EXCEPT
                                !.searchCache = set(@, query, cachedResult.songs)]
                /\ searchReturns(query, FALSE, TRUE, cachedResult.songs)
                /\ UNCHANGED <<Song, SearchCache, job, searched>>
           ELSE /\ searched' = countSearch(searched, query)
                /\ Song' = saved.Song
                /\ IF \E r \in SearchCache : r.query = query
                   THEN UNCHANGED <<SearchCache, job>>
                   ELSE /\ SearchCache' = SearchCache \cup
                               {[id |-> newRecordId, query |-> query,
                                 songs |-> saved.songs]}
                        /\ job' = [job EXCEPT !.created = job.created + 1]
                /\ Cache' = [saved.Cache EXCEPT
                                !.searchCache = set(@, query, saved.songs)]
                /\ searchReturns(query, FALSE, FALSE, saved.songs)
    /\ UNCHANGED <<destroying, formatting>>
    /\ UNCHANGED <<songCall, PlaylistEntry, plCall>>
    /\ UNCHANGED <<User, joinCode, partyCall, likeCall, cleaning, scan, entryCall>>
    /\ UNCHANGED partyVars
    /\ UNCHANGED lruVars

\* loadSearchCache, lines 112-115, with cache.get("songs") in line 114
song_Songs(cache) == IF "songs" \in DOMAIN cache THEN cache.songs ELSE Undefined

\* loadSearchCache, line 114: cache.get("song"), an attribute that no
\* SearchCache row has
song(cache) == IF "song" \in DOMAIN cache THEN cache.song ELSE Undefined

RECURSIVE loadCaches(_, _)
\* loadSearchCache, lines 112-115: Cache.searchCache.set for every record in
\* turn
loadCaches(c, caches) ==
    IF caches = <<>>
    THEN c
    ELSE loadCaches(set(c, Head(caches).query, song(Head(caches))), Tail(caches))

\* loadSearchCache, lines 104-119: the records are read page by page by
\* getAllSearchCaches (lines 143-166, the loop of getAll) and loaded into the
\* in-memory search cache
loadSearchCache ==
    /\ job.pc \in {"idle", "done"}
    /\ job.runs < MaxRuns
    /\ job' = [NoJob EXCEPT !.name = "loadSearchCache", !.pc = "done",
                            !.started = SearchCache, !.runs = job.runs + 1,
                            !.created = job.created]
    /\ Cache' = [Cache EXCEPT !.searchCache = loadCaches(@, getAll(SearchCache))]
    /\ UNCHANGED <<SearchCache, destroying, formatting, searched>>
    /\ UNCHANGED <<Song, songCall, PlaylistEntry, plCall>>
    /\ UNCHANGED partyVars
    /\ UNCHANGED lruVars
    /\ UNCHANGED requestVars

NextLoad ==
    \/ loadSearchCache
    \/ \E query \in Seeds : search(query)

\* the loadSearchCache job and search requests, one after the other
SpecLoad == InitSearch /\ [][NextLoad]_vars

NextSearch == \E query \in Seeds : search(query)

\* search requests one after the other over a store of search records
SpecSearch == InitSearch /\ [][NextSearch]_vars

(***************************************************************************)
(* SpecLRU: one LRUCache and every sequence of set and get calls on it     *)
(***************************************************************************)
\* keys in the order of their last touch: key moved to the front
touch(order, key) == <<key>> \o SelectSeq(order, LAMBDA k : k # key)

oldestOf(order) == IF order = <<>> THEN NoKey ELSE order[Len(order)]

InitLRU ==
    /\ \E n \in Capacities : lru = LRUCache(n)
    /\ last = NoCall
    /\ pre = lru
    /\ recent = <<>>
    /\ written = [k \in Keys |-> Null]
    /\ AppIdle

\* a set whose eviction destroys the rows of the store
Set_Destroying(key, value) ==
    /\ lru' = set(lru, key, value)
    /\ last' = [op |-> "set", key |-> key, value |-> value, result |-> Null,
                again |-> (last.op = "set" /\ last.key = key),
                oldest |-> oldestOf(recent)]
    /\ pre' = lru
    /\ recent' = SelectSeq(touch(recent, key), LAMBDA k : k \in DOMAIN lru'.map)
    /\ written' = [k \in Keys |->
                      IF k \notin DOMAIN lru'.map THEN Null
                      ELSE IF k = key THEN value ELSE written[k]]
    /\ Song' = IF \E k \in DOMAIN lru.map : k \notin DOMAIN lru'.map THEN {} ELSE Song
    /\ UNCHANGED <<Cache, songCall, PlaylistEntry, plCall, partyVars, searchVars,
                   requestVars>>

Set(key, value) ==
    /\ lru' = set(lru, key, value)
    /\ last' = [op |-> "set", key |-> key, value |-> value, result |-> Null,
                again |-> (last.op = "set" /\ last.key = key),
                oldest |-> oldestOf(recent)]
    /\ pre' = lru
    /\ recent' = SelectSeq(touch(recent, key), LAMBDA k : k \in DOMAIN lru'.map)
    /\ written' = [k \in Keys |->
                      IF k \notin DOMAIN lru'.map THEN Null
                      ELSE IF k = key THEN value ELSE written[k]]
    /\ UNCHANGED appVars

Get(key) ==
    /\ lru' = get(lru, key)
    /\ last' = [op |-> "get", key |-> key, value |-> Null,
                result |-> getResult(lru, key),
                again |-> (last.op = "set" /\ last.key = key),
                oldest |-> oldestOf(recent)]
    /\ pre' = lru
    /\ recent' = IF key \in DOMAIN lru.map THEN touch(recent, key) ELSE recent
    /\ UNCHANGED written
    /\ UNCHANGED appVars

NextLRU ==
    \/ \E key \in Keys, value \in Values : Set(key, value)
    \/ \E key \in Keys : Get(key)

SpecLRU == InitLRU /\ [][NextLRU]_vars

\* the same calls in a process whose store holds rows
InitLRUStore ==
    /\ \E n \in Capacities : lru = LRUCache(n)
    /\ last = NoCall
    /\ pre = lru
    /\ recent = <<>>
    /\ written = [k \in Keys |-> Null]
    /\ Cache = Registry
    /\ Song = SongRows
    /\ songCall = [c \in CallIds |-> NoSongCall]
    /\ PlaylistEntry = {}
    /\ plCall = [c \in CallIds |-> NoPlCall]
    /\ PartyIdle
    /\ SearchIdle
    /\ RequestIdle

SpecLRUStore == InitLRUStore /\ [][NextLRU]_vars

(***************************************************************************)
(* Claims about LRUCache, checked under SpecLRU                            *)
(***************************************************************************)
held(c) == DOMAIN c.map

\* the keys of the entries in the recency list, head first
listKeys(c) == [i \in 1..Len(c.list) |-> c.node[c.list[i]].key]

\* the last call was a set of a key not held, made at full capacity
Overflowed ==
    /\ last.op = "set"
    /\ pre.maxSize >= 1
    /\ last.key \notin held(pre)
    /\ Cardinality(held(pre)) >= pre.maxSize

\* C1: with capacity N >= 1 the cache holds at most N entries after every
\* set and get, in the lookup table and in the recency list alike
C1_AtMostCapacity ==
    lru.maxSize >= 1 =>
        /\ Cardinality(held(lru)) <= lru.maxSize
        /\ Len(lru.list) <= lru.maxSize

C1_Witness ==
    /\ Overflowed
    /\ lru.maxSize = MaxCapacity
    /\ Cardinality(held(lru)) = lru.maxSize

\* C2: a set of a new key at full capacity (N >= 1) evicts exactly one
\* entry, the one touched least recently among those held before the call
C2_EvictsLeastRecent ==
    Overflowed =>
        /\ held(pre) \ held(lru) = {last.oldest}
        /\ held(lru) = (held(pre) \ {last.oldest}) \cup {last.key}

\* capacity 3, set(a), set(b), set(c), get(a), set(d): b misses, a, c, d hit
C2_Witness ==
    /\ Overflowed
    /\ lru.maxSize = 3
    /\ listKeys(pre) = <<"a", "c", "b">>
    /\ last.key = "d"
    /\ last.oldest = "b"
    /\ getResult(lru, "b") = Null
    /\ getResult(lru, "a") # Null
    /\ getResult(lru, "c") # Null
    /\ getResult(lru, "d") # Null

\* C3: set(k, v1) followed by set(k, v2), capacity >= 1: one entry for k,
\* with value v2, most recently used; no key evicted, entry count unchanged
C3_SetTwice ==
    (last.op = "set" /\ last.again /\ lru.maxSize >= 1) =>
        /\ last.key \in held(lru)
        /\ Cardinality({i \in 1..Len(lru.list) : listKeys(lru)[i] = last.key}) = 1
        /\ getResult(lru, last.key) = last.value
        /\ listKeys(lru)[1] = last.key
        /\ held(lru) = held(pre)
        /\ Len(lru.list) = Len(pre.list)

C3_Witness ==
    /\ last.op = "set" /\ last.again /\ lru.maxSize >= 1
    /\ getResult(pre, last.key) # Null
    /\ getResult(pre, last.key) # last.value
    /\ Cardinality(held(lru)) = lru.maxSize
    /\ Cardinality(held(lru)) > 1

\* C4: after every set and get the lookup table and the recency list hold
\* the same entries: same size, every key refers to a linked node carrying
\* that key, no key in two nodes
C4_MapListAgree ==
    /\ Cardinality(held(lru)) = Len(lru.list)
    /\ \A k \in held(lru) :
          /\ \E i \in 1..Len(lru.list) : lru.list[i] = lru.map[k]
          /\ lru.node[lru.map[k]].key = k
    /\ \A i, j \in 1..Len(lru.list) :
          i # j => listKeys(lru)[i] # listKeys(lru)[j]

C4_Witness ==
    /\ Overflowed
    /\ Len(lru.list) = MaxCapacity
    /\ listKeys(lru)[1] = last.key

\* C5: get(k) on a held key returns the value of the most recent set(k, .)
\* and makes k most recently used; on a key not held it returns null and
\* changes neither the lookup table nor the recency list
C5_Get ==
    last.op = "get" =>
        IF last.key \in held(pre)
        THEN /\ last.result = written[last.key]
             /\ listKeys(lru)[1] = last.key
        ELSE /\ last.result = Null
             /\ lru.map = pre.map
             /\ lru.list = pre.list

\* a hit on the tail of a full cache
C5_Witness ==
    /\ last.op = "get"
    /\ Len(pre.list) = MaxCapacity
    /\ listKeys(pre)[Len(pre.list)] = last.key
    /\ last.result = written[last.key]
    /\ last.result # getResult(pre, listKeys(pre)[1])

\* C6: with capacity <= 0 the constructor accepts, every set evicts at once
\* so the cache is empty after it, every get misses, and the lookup table
\* and the recency list agree
C6_NonPositiveCapacity ==
    lru.maxSize <= 0 =>
        /\ held(lru) = {}
        /\ lru.list = <<>>
        /\ last.op = "get" => last.result = Null

\* get(k) straight after set(k, v) misses
C6_Witness ==
    /\ lru.maxSize <= 0
    /\ last.op = "get"
    /\ last.again
    /\ last.result = Null

(***************************************************************************)
(* Claims about saveSong                                                   *)
(***************************************************************************)
songRows(spotifyId) == {r \in Song : r.spotifyId = spotifyId}

songDone(spotifyId) ==
    {c \in CallIds : songCall[c].pc = "done" /\ songCall[c].spotifyId = spotifyId}

\* C8: saveSong calls made one after the other for one spotifyId all return
\* the same row, and exactly one Song row with that spotifyId is persisted,
\* whether the song cache still holds the song or not
C8_SaveSongSequential ==
    \A spotifyId \in SpotifyIds :
        /\ Cardinality(songRows(spotifyId)) <= 1
        /\ songDone(spotifyId) # {} =>
              \E r \in songRows(spotifyId) :
                  \A c \in songDone(spotifyId) : songCall[c].result = r.id

\* one call saved the row, one found it in the cache, and one, made with
\* another title after the cache had evicted the song, found it in the store
C8_Witness ==
    \E c1, c2, c3 \in CallIds :
        /\ songCall[c1].pc = "done" /\ songCall[c2].pc = "done" /\ songCall[c3].pc = "done"
        /\ songCall[c1].spotifyId = songCall[c2].spotifyId
        /\ songCall[c1].spotifyId = songCall[c3].spotifyId
        /\ ~songCall[c1].hit /\ ~songCall[c1].found
        /\ songCall[c2].hit
        /\ ~songCall[c3].hit /\ songCall[c3].found
        /\ songCall[c3].title # songCall[c1].title
        /\ songCall[c1].result = songCall[c3].result

\* C9: after saveSong calls that interleave at the store query and the
\* store save, at most one Song row per spotifyId is persisted and all
\* calls for the spotifyId returned that row
C9_OneRowPerSpotifyId ==
    NoSongCallInFlight =>
        \A spotifyId \in SpotifyIds :
            /\ Cardinality(songRows(spotifyId)) <= 1
            /\ \A c, d \in songDone(spotifyId) : songCall[c].result = songCall[d].result

(***************************************************************************)
(* Claims about the registry and getCachedPlaylist                         *)
(***************************************************************************)
\* C7: the registry holds a song, a search-query, a party and a playlist
\* cache from process start, and every cache an operation dereferences is
\* a registered one, so no call ends in a TypeError on a missing cache
C7_UsedCachesRegistered ==
    /\ UsedCaches \subseteq DOMAIN Cache
    /\ \A c \in CallIds : plCall[c].error # "TypeError"

\* the rows of a party
entriesOf(party) == {r \in PlaylistEntry : r.party = party}

\* C10: a completed getCachedPlaylist(party) has returned a mapping: the one
\* held in the playlist cache on a hit, without a store query; on a miss the
\* mapping built from all rows of the party, one key per row, the key being
\* the row's song spotifyId, which the playlist cache then holds
C10_GetCachedPlaylist ==
    \A c \in CallIds :
        plCall[c].pc = "done" =>
            /\ plCall[c].error = NoKey
            /\ plCall[c].hit => plCall[c].rows = {}
            /\ ~plCall[c].hit =>
                  /\ plCall[c].rows = entriesOf(plCall[c].party)
                  /\ DOMAIN plCall[c].result = {r.song : r \in plCall[c].rows}
                  /\ Cardinality(DOMAIN plCall[c].result) = Cardinality(plCall[c].rows)
                  /\ \A k \in DOMAIN plCall[c].result :
                        \E r \in plCall[c].rows : r.song = k /\ r = plCall[c].result[k]
            /\ "playlistCache" \in DOMAIN Cache
            /\ plCall[c].party \in DOMAIN Cache.playlistCache.map =>
                  getResult(Cache.playlistCache, plCall[c].party) = plCall[c].result

\* C10 for the stores in which no party has two rows of one song
C10_GetCachedPlaylistNoDuplicates ==
    (\A r1, r2 \in PlaylistEntry :
        (r1.party = r2.party /\ r1.song = r2.song) => r1 = r2)
    => C10_GetCachedPlaylist

playlistValues(playlist) == {playlist[k] : k \in DOMAIN playlist}

\* the snapshot lists exactly the values, each once, and, where every value
\* has a score, by non-increasing score
SnapshotOf(cachedPlaylist, values) ==
    /\ {cachedPlaylist[i] : i \in 1..Len(cachedPlaylist)} = values
    /\ Len(cachedPlaylist) = Cardinality(values)
    /\ (\A v \in values : v.score # Unset) =>
           \A i, j \in 1..Len(cachedPlaylist) :
               i < j => cachedPlaylist[i].score >= cachedPlaylist[j].score

\* C12: a completed indicatePlaylistUpdated(party) has saved on the party a
\* cachedPlaylist snapshot that holds exactly the entries of the mapping
\* getCachedPlaylist returns for the party, each once, by non-increasing
\* score, and has set playlistLastUpdatedAt in the same save
C12_IndicatePlaylistUpdated ==
    plOp.name = "indicatePlaylistUpdated" =>
        /\ plOp.error = NoKey
        /\ plOp.party \in DOMAIN cachedPlaylists(Cache)
        /\ SnapshotOf(Party[plOp.party].cachedPlaylist,
                      playlistValues(cachedPlaylists(Cache)[plOp.party]))
        /\ Party[plOp.party].playlistLastUpdatedAt = now

\* the mapping the operation found for its party: the cached one, or the one
\* cachePlaylist built from the rows
mappingsBefore ==
    IF plOp.party \in DOMAIN plOp.before
    THEN {plOp.before[plOp.party]}
    ELSE {toPlaylist(entries) : entries \in getPlaylistForParty(PlaylistEntry, plOp.party)}

\* C14: a completed addEntryToPlaylist(party, entry) has mapped the song's
\* spotifyId to the entry in the party's cached mapping, a completed
\* removeEntryFromPlaylist(party, entry) has removed that key; the other
\* keys of the mapping and the cached mappings of other parties are as they
\* were, and the snapshot indicatePlaylistUpdated saved was computed from
\* the mapping after the change
C14_AddRemoveEntry ==
    plOp.name \in {"addEntryToPlaylist", "removeEntryFromPlaylist"} =>
        /\ plOp.error = NoKey
        /\ plOp.party \in DOMAIN cachedPlaylists(Cache)
        /\ LET playlist == cachedPlaylists(Cache)[plOp.party]
           IN  /\ plOp.name = "addEntryToPlaylist" =>
                      /\ plOp.song \in DOMAIN playlist
                      /\ playlist[plOp.song] = plOp.object
               /\ plOp.name = "removeEntryFromPlaylist" => plOp.song \notin DOMAIN playlist
               /\ \E was \in mappingsBefore :
                      /\ DOMAIN playlist \ {plOp.song} = DOMAIN was \ {plOp.song}
                      /\ \A k \in DOMAIN playlist \ {plOp.song} : playlist[k] = was[k]
               /\ Party[plOp.party].cachedPlaylist \in getPlaylistAsString(playlist)
        /\ \A other \in DOMAIN cachedPlaylists(Cache) \ {plOp.party} :
               /\ other \in DOMAIN plOp.before
               /\ cachedPlaylists(Cache)[other] = plOp.before[other]

\* the operations that change a playlist
MutatingOps ==
    {"addSong", "removeSong", "getNextSong", "setCurrentlyPlayingEntry",
     "likeSong", "unlikeSong"}

\* the last operation went past its checks: it returned, or it was cut short
\* by a TypeError
RanThrough == plOp.error \in {NoKey, "TypeError"}

\* C13: when a mutating playlist operation has completed, with no other
\* operation interleaved, the snapshot persisted on its party lists exactly
\* the party's persisted PlaylistEntry rows, each as persisted (with its
\* current score), by non-increasing score
C13_SnapshotMatchesRows ==
    (plOp.name \in MutatingOps /\ RanThrough) =>
        /\ plOp.error = NoKey
        /\ SnapshotOf(Party[plOp.party].cachedPlaylist, entriesOf(plOp.party))

\* C13 for the operations that returned
C13_SnapshotMatchesRowsReturned ==
    (plOp.name \in MutatingOps /\ plOp.error = NoKey) =>
        SnapshotOf(Party[plOp.party].cachedPlaylist, entriesOf(plOp.party))

\* C15: when addSong, likeSong or unlikeSong has completed, the persisted
\* score of the entry it worked on equals its persisted numLikes (0 for an
\* entry just added)
C15_ScoreIsNumLikes ==
    (plOp.name \in {"addSong", "likeSong", "unlikeSong"} /\ RanThrough) =>
        \A r \in PlaylistEntry :
            r.id = plOp.entry => r.score = r.numLikes

\* C15 for the operations that returned
C15_ScoreIsNumLikesReturned ==
    (plOp.name \in {"addSong", "likeSong", "unlikeSong"} /\ plOp.error = NoKey) =>
        \A r \in PlaylistEntry :
            r.id = plOp.entry => r.score = r.numLikes

(***************************************************************************)
(* Claims about the search-cache jobs                                      *)
(***************************************************************************)
\* the rows of a query
recordsOf(query) == {r \in SearchCache : r.query = query}

ConsolidateDone == job.name = "consolidateSearchCache" /\ job.pc = "done"

\* C16: when the consolidateSearchCache job has completed, every query that
\* had a persisted record when the job started has exactly one
C16_OneRecordPerQuery ==
    ConsolidateDone =>
        \A query \in {r.query : r \in job.started} :
            Cardinality(recordsOf(query)) = 1

\* C16 once every destroy the job called has taken effect
C16_OneRecordPerQueryLanded ==
    (ConsolidateDone /\ destroying = {}) =>
        \A query \in {r.query : r \in job.started} :
            Cardinality(recordsOf(query)) = 1

\* the elements of a list
elements(list) == {list[i] : i \in 1..Len(list)}

\* C17: when consolidateCache has merged k > 1 records of a query, the songs
\* of the record it saved are exactly the Songs in the songs lists of the k
\* records
C17_MergedSongs ==
    (job.name = "consolidateSearchCache" /\ Cardinality(job.before) > 1) =>
        \A r \in SearchCache :
            r.id = job.survivor =>
                elements(r.songs) = UNION {elements(b.songs) : b \in job.before}

\* C18: consolidating a query that has exactly one record destroys no row,
\* creates no row and leaves the record as it is
C18_SingleRecordNoOp ==
    [][(/\ job.name = "consolidateSearchCache"
        /\ job.pc = "loop"
        /\ job.queries # <<>>
        /\ job'.queries = Tail(job.queries)
        /\ Cardinality(recordsOf(Head(job.queries))) = 1)
       => /\ SearchCache' = SearchCache
          /\ destroying' = destroying
          /\ job'.created = job.created]_vars

\* a query with one record was consolidated beside a query that was merged
C18_Witness ==
    /\ job.name = "consolidateSearchCache"
    /\ Cardinality(job.before) = 1
    /\ job.before \subseteq SearchCache
    /\ job.created > 0

\* C19: running consolidateSearchCache twice in a row leaves the records
\* that running it once leaves
C19_Idempotent ==
    (ConsolidateDone /\ job.runs = 2 /\ destroying = {}) =>
        SearchCache = job.once

\* C19 where the second run starts after every destroy of the first has
\* taken effect
C19_IdempotentLanded ==
    (ConsolidateDone /\ job.runs = 2 /\ destroying = {}
        /\ \A r \in job.started : r \in job.once) =>
        SearchCache = job.once

\* the non-empty prefixes of a query, the query included
prefixes(query) == {SubSeq(query, 1, n) : n \in 1..Len(query)}

\* the seed queries of the run: the queries of the rows the job read
seeds == {r.query : r \in job.started}

\* C20: in one buildSearchCache run no string is searched remotely twice,
\* even when two seeds share it as a prefix; when the job has returned, a
\* remote search was issued exactly once for every non-empty prefix of
\* every seed and for nothing else, and the list returned holds exactly
\* these prefixes
C20_EachPrefixOnce ==
    job.name = "buildSearchCache" =>
        /\ \A query \in DOMAIN searched : searched[query] = 1
        /\ DOMAIN searched \subseteq UNION {prefixes(seed) : seed \in seeds}
        /\ job.pc = "done" =>
              /\ DOMAIN searched = UNION {prefixes(seed) : seed \in seeds}
              /\ elements(job.result) = UNION {prefixes(seed) : seed \in seeds}
              /\ Len(job.result) = Cardinality(elements(job.result))

\* a run whose seeds "ab" and "ac" share the prefix "a", and have "a" itself
\* as a third seed, has returned
C20_Witness ==
    /\ job.name = "buildSearchCache"
    /\ job.pc = "done"
    /\ seeds = {<<"a">>, <<"a", "b">>, <<"a", "c">>}
    /\ searched[<<"a">>] = 1

\* C21: the prefix expansion of buildCache terminates for every seed: each
\* round of its loop, a round that skips a visited prefix included, takes
\* one character off the query, so a seed of length n gets at most n rounds
\* and the call returns
C21_BuildCacheTerminates ==
    /\ [](job.name = "buildSearchCache" =>
             /\ job.iterations <= Len(job.seed)
             /\ job.pc = "prefix" => Len(job.query) = Len(job.seed) - job.iterations)
    /\ (job.pc = "prefix") ~> (job.pc = "loop")

\* the call for the seed "ab" has returned after two rounds, one of which
\* skipped the prefix "a" that the seed "a" had visited
C21_Witness ==
    /\ job.name = "buildSearchCache"
    /\ job.pc = "loop"
    /\ job.seed = <<"a", "b">>
    /\ job.iterations = 2
    /\ job.cachedQueries = <<<<"a">>, <<"a", "b">>>>

BuildDone == job.name = "buildSearchCache" /\ job.pc = "done"

\* the rows a query had when the job started
recordsBefore(query) == {r \in job.started : r.query = query}

C22_VisitedPrefixesCachedLanded ==
    (BuildDone /\ formatting = {}) =>
        /\ \A query \in elements(job.result) : recordsOf(query) # {}
        /\ \A query \in seeds : recordsOf(query) = recordsBefore(query)

(***************************************************************************)
(* Claims about createParty and generateJoinCode                           *)
(***************************************************************************)
JoinCodeError == "Could not generate a unique join code!"

Returned(call) == call.pc \in {"save", "saveUser", "done"}

\* C23: generateJoinCode terminates after at most MaxRetries uniqueness
\* checks: it returns the first candidate for which the store reported no
\* party, every earlier candidate having collided, and when all MaxRetries
\* candidates collided it throws 'Could not generate a unique join code!'
\* and returns no code
C23_GenerateJoinCodeBounded ==
    /\ [](\A user \in Users :
            LET call == partyCall[user]
            IN  /\ call.checks <= MaxRetries
                /\ call.pc = "generate" =>
                      call.checks < MaxRetries /\ call.collisions = call.checks
                /\ Returned(call) =>
                      /\ call.joinCode = call.candidate
                      /\ call.collisions = call.checks - 1
                /\ call.error = JoinCodeError <=>
                      /\ call.pc = "failed"
                      /\ call.collisions = MaxRetries
                /\ call.pc = "failed" => call.joinCode = NoKey)
    /\ \A user \in Users :
          (partyCall[user].pc = "generate")
             ~> (Returned(partyCall[user]) \/ partyCall[user].error = JoinCodeError)

\* a call that threw after MaxRetries collisions and one that returned its
\* second candidate
C23_Witness ==
    /\ partyCall["u1"].error = JoinCodeError
    /\ partyCall["u1"].checks = MaxRetries
    /\ Returned(partyCall["u2"])
    /\ partyCall["u2"].checks = 2

\* the joinCodes the persisted parties hold
takenCodes == {joinCode[p] : p \in DOMAIN joinCode}

\* C24: while fewer than MaxRetries join codes are taken, generateJoinCode
\* never throws: it returns a code that no persisted party holds
C24_NeverFailsBelowBound ==
    \A user \in Users :
        Cardinality(takenCodes) < MaxRetries =>
            partyCall[user].error # JoinCodeError

\* C25: no two persisted parties have the same joinCode, createParty calls
\* that interleave between the uniqueness check and party.save() included
C25_JoinCodesUnique ==
    \A p, q \in DOMAIN joinCode : joinCode[p] = joinCode[q] => p = q

(***************************************************************************)
(* Claims about likeSong                                                   *)
(***************************************************************************)
\* C26: no user has two Like rows for one entry, likeSong calls of the user
\* that interleave between the existence check and like.save() included,
\* and a likeSong that fails with 'User has already liked the song!' is one
\* of a user who likes the entry
C26_OneLikePerUser ==
    /\ \A l, m \in Like : (l.entry = m.entry /\ l.user = m.user) => l.id = m.id
    /\ \A c \in LikeCallIds :
          likeCall[c].error = "User has already liked the song!" =>
              getLike(Like, likeCall[c].entryId, likeCall[c].user) # {}

\* C26 for likeSong calls that do not overlap
C26_OneLikePerUserSequential ==
    \A l, m \in Like : (l.entry = m.entry /\ l.user = m.user) => l.id = m.id

(***************************************************************************)
(* Claims about the caches and the persistent store                        *)
(***************************************************************************)
\* the rows of every class of the persistent store
storeVars == <<Song, PlaylistEntry, Party, Like, SearchCache, User, joinCode>>

\* C27: every LRUCache.set and LRUCache.get, a set that evicts under
\* capacity pressure included, leaves every row of the persistent store as
\* it was: eviction destroys and modifies no persisted row
C27_StoreUnchangedByCache ==
    [][last'.op \in {"set", "get"} => UNCHANGED storeVars]_vars

\* a set has evicted an entry and the rows are in the store
C27_Witness ==
    /\ Overflowed
    /\ last.oldest \notin held(lru)
    /\ Song = SongRows
    /\ DOMAIN joinCode = PartyIds

\* the last operation was a deleteParty that destroyed the party
Deleted == plOp.name = "deleteParty" /\ plOp.error = NoKey

\* C28: when deleteParty has completed, the party cache and the playlist
\* cache hold no entry under the id of the destroyed party
C28_DestroyedPartyEvicted ==
    Deleted =>
        /\ plOp.party \notin DOMAIN joinCode
        /\ plOp.party \notin DOMAIN Cache.partyCache.map
        /\ plOp.party \notin DOMAIN cachedPlaylists(Cache)

\* after deleteParty no user is left in the destroyed party, so that
\* getPartyFromUser does not look its id up
C28_NoMemberLeft ==
    Deleted => \A user \in Users : User[user] # plOp.party

(***************************************************************************)
(* Claims about search                                                     *)
(***************************************************************************)
\* a search request returns in this step
Searched == searchOp'.seq # searchOp.seq

\* C29: search(query) returns the list the in-memory search cache holds for
\* the query; when it holds none, the list of the persisted record; it calls
\* the remote search only when there is neither, and a miss is no error. When
\* a search has returned, the in-memory cache holds the query with the list
\* returned, and a later search for the query returns the same list without
\* a remote search.
C29_SearchCacheOrder ==
    /\ [](/\ searchOp.error = NoKey
          /\ searchOp.seq > 0 =>
                /\ searchOp.query \in DOMAIN Cache.searchCache.map
                /\ getResult(Cache.searchCache, searchOp.query) = searchOp.result)
    /\ [][Searched =>
            LET query == searchOp'.query
                cached == query \in DOMAIN Cache.searchCache.map
                rows  == {r \in SearchCache : r.query = query}
            IN  /\ searched' # searched <=> (~cached /\ rows = {})
                /\ cached => searchOp'.result = getResult(Cache.searchCache, query)
                /\ (~cached /\ rows # {}) => \E r \in rows : searchOp'.result = r.songs
                /\ query \in DOMAIN searchOp.lists =>
                      /\ searchOp'.result = searchOp.lists[query]
                      /\ searched' = searched]_vars

\* a query searched remotely, evicted from memory by the searches of two
\* other queries, and searched again: the list comes from the record
C29_Witness ==
    /\ searchOp.again
    /\ ~searchOp.hit
    /\ searchOp.found
    /\ searchOp.query \in DOMAIN searched

(***************************************************************************)
(* Claims about the calls an operation starts                              *)
(***************************************************************************)
\* C30: when buildSearchCache or consolidateSearchCache has returned, every
\* store call it started has finished: no formatSearchResult and no
\* destroy() of the job is still in flight, so that no failure of such a
\* call can go unreported
C30_CallsFinished ==
    job.pc = "done" => (formatting = {} /\ destroying = {})

(***************************************************************************)
(* Claims about the policy checks of the operations                        *)
(***************************************************************************)
NotAdminError == "User is not the admin of their party!"

AdminOps ==
    {"removeSong", "getNextSong", "setCurrentlyPlayingSong", "setCurrentlyPlayingEntry",
     "deleteParty", "savePartySettings", "updatePartyLocation"}

\* an admin-only operation of a user in a party whose admin the user is not
\* returns or throws in this step
NonAdminCall ==
    /\ now' # now
    /\ plOp'.name \in AdminOps
    /\ User[plOp'.user] # NoKey
    /\ admin[User[plOp'.user]] # plOp'.user

\* C31: removeSong, getNextSong, setCurrentlyPlayingSong,
\* setCurrentlyPlayingEntry, deleteParty, savePartySettings and
\* updatePartyLocation, called by a user who is not the admin of the party,
\* throw 'User is not the admin of their party!' and leave the persisted
\* parties, users, playlist entries, likes and the snapshot as they were
C31_NonAdminRejected ==
    [][NonAdminCall =>
          /\ plOp'.error = NotAdminError
          /\ UNCHANGED <<Party, joinCode, User, PlaylistEntry, Like, Song, cleaning>>]_vars

\* a user of a party with entries who is not its admin was refused
C31_Witness ==
    /\ plOp.error = NotAdminError
    /\ plOp.name = "deleteParty"
    /\ \E r \in PlaylistEntry : r.party = plOp.party
    /\ now = MaxOps

\* the last operation was an addSong, not refused for the song limit, of a
\* song that the party of the caller had an entry for
AddedAgain ==
    /\ plOp.name = "addSong"
    /\ plOp.error # "User has reached the song limit!"
    /\ \E r \in PlaylistEntry :
          r.party = plOp.party /\ r.song = plOp.song /\ r.id # plOp.entry

\* C32: addSong of a spotifyId that has a PlaylistEntry in the party of the
\* caller throws 'Song is already in the playlist!' and saves no entry, so
\* that no party has two PlaylistEntry rows of one spotifyId when the
\* operations run one after the other
C32_DuplicateSongRefused ==
    /\ AddedAgain => (plOp.error = "Song is already in the playlist!" /\ plOp.entry = Null)
    /\ \A r, q \in PlaylistEntry : (r.party = q.party /\ r.song = q.song) => r.id = q.id

\* the second half of C32 alone
C32_NoDuplicateEntries ==
    \A r, q \in PlaylistEntry : (r.party = q.party /\ r.song = q.song) => r.id = q.id

\* no PlaylistEntry row of the party and no Like row of an entry that has no
\* row is in the store
CleanedUp(party) ==
    /\ \A r \in PlaylistEntry : r.party # party
    /\ \A l \in Like : \E r \in PlaylistEntry : r.id = l.entry

\* a step of the cleanup leaves the rows of the parties that exist as they are
OthersUntouched ==
    (cleaning' # cleaning /\ now' = now) =>
        /\ \A r \in PlaylistEntry : r.party \in DOMAIN joinCode => r \in PlaylistEntry'
        /\ \A l \in Like :
              (\E r \in PlaylistEntry : r.id = l.entry /\ r.party \in DOMAIN joinCode)
                  => l \in Like'

\* C33: after deleteParty has destroyed a party, eventually no PlaylistEntry
\* row of the party and no Like row of its entries remains in the store, and
\* the cleanup leaves the rows of the other parties untouched
C33_CleanupCompletes ==
    /\ \A party \in PartyIds : (party \notin DOMAIN joinCode) ~> [](CleanedUp(party))
    /\ [][OthersUntouched]_vars

\* the first half of C33 alone
C33_EventuallyCleanedUp ==
    \A party \in PartyIds : (party \notin DOMAIN joinCode) ~> [](CleanedUp(party))

\* the second half of C33 alone
C33_OthersUntouched == [][OthersUntouched]_vars

\* a Like row of a destroyed entry is in the store after the cleanup has ended
C33_OrphanLike ==
    /\ cleaning = {}
    /\ \E party \in PartyIds : party \notin DOMAIN joinCode
    /\ \E l \in Like : \A r \in PlaylistEntry : r.id # l.entry
    /\ \A c \in LikeCallIds : likeCall[c].pc \in {"idle", "done", "failed"}

\* the getAll call has returned
Scanned == scan.pc = "done"

\* C34: over a store that does not change, getAll terminates and returns
\* every row of the class once, by ascending objectId, for every number of
\* rows; it asks for a further page only after a full page and returns at
\* the first page shorter than the chunk size
C34_GetAllPages ==
    /\ (scan.pc = "find") ~> Scanned
    /\ [](Scanned =>
            /\ Len(scan.result) = Cardinality(SearchCache)
            /\ \A r \in SearchCache : \E i \in 1..Len(scan.result) : scan.result[i] = r
            /\ \A i, j \in 1..Len(scan.result) :
                  i < j => scan.result[i].id < scan.result[j].id
            /\ scan.pages = (Cardinality(SearchCache) \div chunk_size) + 1
            /\ scan.chunk < chunk_size)
    /\ []((scan.pc = "find" /\ scan.pages > 0) => scan.chunk = chunk_size)

\* getAll has returned the rows of a store of exactly one full page, after a
\* second, empty page
C34_Witness ==
    /\ Scanned
    /\ Cardinality(SearchCache) = chunk_size
    /\ scan.pages = 2
    /\ scan.chunk = 0

\* every addEntryToPlaylist and removeEntryFromPlaylist call that was made
\* has ended
EntryCallsEnded == \A c \in EntryCallIds : entryCall[c].pc \in {"idle", "done", "failed"}

\* two addEntryToPlaylist calls for two songs of one party were made while
\* the playlist of the party was not cached, and have ended
TwoAdded ==
    /\ \A c \in EntryCallIds :
          /\ entryCall[c].pc \in {"done", "failed"}
          /\ entryCall[c].name = "addEntryToPlaylist"
          /\ ~entryCall[c].hit
    /\ \A c, d \in EntryCallIds :
          /\ entryCall[c].party = entryCall[d].party
          /\ c # d => entryCall[c].entry.song # entryCall[d].entry.song

\* C35: when two addEntryToPlaylist calls for distinct songs of one party,
\* started while the playlist of the party was not cached, have both ended,
\* the mapping the playlist cache holds for the party has both entries
C35_BothEntriesCached ==
    TwoAdded =>
        \A c \in EntryCallIds :
            /\ entryCall[c].error = NoKey
            /\ entryCall[c].party \in DOMAIN cachedPlaylists(Cache)
            /\ entryCall[c].entry.song \in DOMAIN cachedPlaylists(Cache)[entryCall[c].party]
            /\ cachedPlaylists(Cache)[entryCall[c].party][entryCall[c].entry.song]
                  = entryCall[c].entry

\* both calls went through the store query of cachePlaylist and ended
\* without an error
C35_BothRebuilt ==
    /\ TwoAdded
    /\ \A c \in EntryCallIds : entryCall[c].error = NoKey

C36_SnapshotOfSomeCall ==
    \A party \in PartyIds :
        Party[party].playlistLastUpdatedAt # Unset =>
            \E c \in EntryCallIds :
                /\ entryCall[c].pc = "done"
                /\ entryCall[c].party = party
                /\ entryCall[c].cachedPlaylist = Party[party].cachedPlaylist

\* all calls have ended and the Party row has the snapshot that was computed
\* first
C36_StaleSnapshot ==
    /\ \A c \in EntryCallIds : entryCall[c].pc = "done"
    /\ \E c, d \in EntryCallIds :
          /\ entryCall[c].party = entryCall[d].party
          /\ entryCall[c].playlistLastUpdatedAt < entryCall[d].playlistLastUpdatedAt
          /\ Party[entryCall[c].party].cachedPlaylist = entryCall[c].cachedPlaylist
          /\ entryCall[c].cachedPlaylist # entryCall[d].cachedPlaylist

\* every likeSong and unlikeSong call that was made has ended
LikeCallsEnded == \A c \in LikeCallIds : likeCall[c].pc \in {"idle", "done", "failed"}

\* C37: when the likeSong and unlikeSong calls on an entry have ended, the
\* numLikes of the PlaylistEntry row is the number of Like rows of the
\* entry; numLikes is never negative
C37_NumLikesCountsLikes ==
    /\ LikeCallsEnded =>
          \A r \in PlaylistEntry :
              r.numLikes = Cardinality({l \in Like : l.entry = r.id})
    /\ \A r \in PlaylistEntry : r.numLikes >= 0

\* the first half of C37 alone
C37_CountWhenEnded ==
    LikeCallsEnded =>
        \A r \in PlaylistEntry : r.numLikes = Cardinality({l \in Like : l.entry = r.id})

\* the second half of C37 alone
C37_NeverNegative == \A r \in PlaylistEntry : r.numLikes >= 0

\* C37 while one call at most has been made
C37_OneCall ==
    (LikeCallsEnded /\ Cardinality({c \in LikeCallIds : likeCall[c].pc # "idle"}) <= 1) =>
        \A r \in PlaylistEntry :
            /\ r.numLikes = Cardinality({l \in Like : l.entry = r.id})
            /\ r.numLikes >= 0

\* the loadSearchCache job has run in this step
Loaded == job'.name = "loadSearchCache" /\ job'.runs # job.runs

\* the queries of the last records, as many as the search cache holds
lastQueries(caches) ==
    LET queries == buildQuerySet([i \in 1..Len(caches) |-> caches[Len(caches) + 1 - i]])
    IN  {queries[i] : i \in {j \in 1..Len(queries) : j <= SearchCacheSize}}

\* C38: when the loadSearchCache job has ended, the in-memory search cache
\* returns, for the query of every persisted record that its capacity
\* leaves room for, the songs list of a record of the query, and a search
\* for such a query that follows is answered from memory
C38_LoadedFromRecords ==
    [][/\ Loaded =>
            \A query \in lastQueries(getAll(SearchCache)) :
                /\ query \in DOMAIN Cache'.searchCache.map
                /\ \E r \in SearchCache :
                      /\ r.query = query
                      /\ getResult(Cache'.searchCache, query) = r.songs
       /\ (Searched /\ job.name = "loadSearchCache" /\ searchOp.seq = 0
               /\ searchOp'.query \in lastQueries(getAll(SearchCache))) =>
              searchOp'.hit]_vars

\* the part of C38 that holds: the job puts the queries of the last
\* records into the search cache
C38_QueriesLoaded ==
    [][Loaded =>
          \A query \in lastQueries(getAll(SearchCache)) :
              query \in DOMAIN Cache'.searchCache.map]_vars

\* the first search after the job was for a loaded query and was answered
\* from the record in the store
C38_ServedFromStore ==
    /\ job.name = "loadSearchCache"
    /\ searchOp.seq = 1
    /\ \E r \in job.started : r.query = searchOp.query
    /\ ~searchOp.hit
    /\ searchOp.found

====
